---- MODULE Spec2Model ----
(***************************************************************************)
(* GARP shipping connector: the DHL carrier client (src/src/carriers/      *)
(* dhl.py) and the per-file orchestration with its lock marker             *)
(* (src/src/orchestrator.py).                                              *)
(*                                                                         *)
(* JSON objects are TLA+ records (functions on their keys); the empty      *)
(* object {} is the empty function << >>.  Byte strings are strings.       *)
(***************************************************************************)
EXTENDS Integers, Sequences, FiniteSets, TLC

(***************************************************************************)
(* Python helpers                                                          *)
(***************************************************************************)

\* dict.get(k, default)
Get(d, k, def) == IF k \in DOMAIN d THEN d[k] ELSE def

\* truth value of a dict or a list: non-empty
Truthy(d) == DOMAIN d # {}

\* base64.b64decode on the contents the carrier responses of the model carry
B64Decode(s) ==
    CASE s = "TEJM" -> "LBL"
      [] s = "TFNU" -> "LST"
      [] s = "RE9D" -> "DOC"
      [] s = "TEIy" -> "LB2"
      [] OTHER -> ""

(***************************************************************************)
(* DHL client: carrier responses                                           *)
(***************************************************************************)

\* transportInstruction objects a creation response may carry
TIFull == [id |-> "12345", pieces |-> <<[id |-> <<"BARCODE123">>]>>]
TIAlt == [id |-> "777", pieces |-> <<[barcodeId |-> "BC777"]>>]
TINoPieces == [id |-> "12345", routingCode |-> "2LSE"]
TINoId == [pieces |-> <<[id |-> <<"BARCODE9">>]>>]
TIEmpty == << >>

\* decoded JSON bodies of the creation endpoint
CreateBodies ==
    { [status |-> "Succes", transportInstruction |-> TIFull],
      [status |-> "Succes", transportInstruction |-> TINoPieces],
      [status |-> "Succes", transportInstruction |-> TIEmpty],
      TIAlt, TINoId, TIEmpty }

\* what session.post + raise_for_status + response.json() can give for a creation
CreateResponses ==
    { [status |-> "http_error", body |-> TIEmpty],
      [status |-> "not_json", body |-> TIEmpty] }
    \cup { [status |-> "ok", body |-> b] : b \in CreateBodies }

Report(t, c) == [type |-> t, content |-> c]

ReportLists ==
    { << >>,
      <<Report("Label", "TEJM")>>,
      <<Report("ShipmentList", "TFNU"), Report("Label", "TEJM")>>,
      <<Report("Other", "RE9D"), Report("ShipmentList", "TFNU")>>,
      <<Report("Other", "RE9D"), Report("Label", "TEIy"), Report("Label", "TEJM")>>,
      <<Report("Label", "")>>,
      <<Report("ShipmentList", "")>> }

\* response.text[:200] in the error of a response without reports
TextLimit == 200

\* response.text, as its characters: a short body, and one longer than the
\* error message keeps
ShortText == <<"{", "}">>
LongText == [i \in 1..(TextLimit + 2) |-> IF i = 1 THEN "{" ELSE "x"]

\* text[:TextLimit]
Truncated(text) ==
    SubSeq(text, 1, IF Len(text) < TextLimit THEN Len(text) ELSE TextLimit)

\* what a print endpoint can answer: an HTTP error, raw bytes, a JSON object
\* with or without a report list, a body announced as JSON that does not
\* decode, or another Content-Type.  raw is response.content, body is
\* response.json() when the body decodes.
PrintResponses ==
    { [status |-> "http_error", ctype |-> "", raw |-> "", decodes |-> FALSE,
       body |-> << >>, text |-> ShortText],
      [status |-> "ok", ctype |-> "application/pdf", raw |-> "%PDF", decodes |-> FALSE,
       body |-> << >>, text |-> ShortText],
      [status |-> "ok", ctype |-> "text/plain", raw |-> "RAW", decodes |-> FALSE,
       body |-> << >>, text |-> ShortText],
      [status |-> "ok", ctype |-> "application/json", raw |-> "<html>", decodes |-> FALSE,
       body |-> << >>, text |-> ShortText],
      [status |-> "ok", ctype |-> "application/json", raw |-> "{...}", decodes |-> TRUE,
       body |-> [status |-> "Succes"], text |-> LongText] }
    \cup { [status |-> "ok", ctype |-> "application/json", raw |-> "{}", decodes |-> TRUE,
            body |-> [reports |-> r], text |-> ShortText] : r \in ReportLists }

\* "json" in content_type, on the Content-Types of the model
IsJson(ctype) == ctype \in {"application/json"}

Ok(v) == [ok |-> TRUE, val |-> v]
Err(e) == [ok |-> FALSE, val |-> e]

\* an error whose message carries a piece of the response
ErrWith(e, detail) == [ok |-> FALSE, val |-> e, detail |-> detail]

(***************************************************************************)
(* DHL client: document extraction                                         *)
(***************************************************************************)

\* index of the first report of type t, 0 when there is none
FirstOfType(reports, t) ==
    IF \E i \in DOMAIN reports : reports[i].type = t
    THEN CHOOSE i \in DOMAIN reports :
           /\ reports[i].type = t
           /\ \A j \in DOMAIN reports : reports[j].type = t => i <= j
    ELSE 0

\* an extraction that takes the first report whatever its type
ExtractLabelTakesFirst(resp) ==
    IF resp.ctype \in {"application/pdf", "application/octet-stream"}
    THEN Ok(resp.raw)
    ELSE IF IsJson(resp.ctype)
    THEN IF ~resp.decodes THEN Err("JSONDecodeError")
         ELSE LET reports == Get(resp.body, "reports", << >>)
              IN  IF ~Truthy(reports) THEN ErrWith("no reports", Truncated(resp.text))
                  ELSE IF reports[1].content # ""
                       THEN Ok(B64Decode(reports[1].content))
                       ELSE Err("content empty")
    ELSE Ok(resp.raw)

\* an extraction that gives empty bytes for a response without reports
ExtractLabelEmptyOnNoReports(resp) ==
    IF resp.ctype \in {"application/pdf", "application/octet-stream"}
    THEN Ok(resp.raw)
    ELSE IF IsJson(resp.ctype)
    THEN IF ~resp.decodes THEN Err("JSONDecodeError")
         ELSE LET reports == Get(resp.body, "reports", << >>)
              IN  IF ~Truthy(reports) THEN Ok("")
                  ELSE LET i == FirstOfType(reports, "Label")
                           label_report == IF i = 0 THEN reports[1] ELSE reports[i]
                       IN  IF label_report.content # ""
                           THEN Ok(B64Decode(label_report.content))
                           ELSE Err("content empty")
    ELSE Ok(resp.raw)

\* DHLClient._extract_label_from_response
ExtractLabelFromResponse(resp) ==
    IF resp.ctype \in {"application/pdf", "application/octet-stream"}
    THEN Ok(resp.raw)
    ELSE IF IsJson(resp.ctype)
    THEN IF ~resp.decodes THEN Err("JSONDecodeError")
         ELSE LET reports == Get(resp.body, "reports", << >>)
              IN  IF ~Truthy(reports) THEN ErrWith("no reports", Truncated(resp.text))
                  ELSE LET i == FirstOfType(reports, "Label")
                           label_report == IF i = 0 THEN reports[1] ELSE reports[i]
                       IN  IF label_report.content # ""
                           THEN Ok(B64Decode(label_report.content))
                           ELSE Err("content empty")
    ELSE Ok(resp.raw)

\* DHLClient._extract_document_from_response: Ok("None") stands for None
RECURSIVE ExtractFrom(_, _, _)
ExtractFrom(reports, doc_type, i) ==
    IF i > Len(reports) THEN Ok("None")
    ELSE IF reports[i].type = doc_type /\ reports[i].content # ""
         THEN Ok(B64Decode(reports[i].content))
         ELSE ExtractFrom(reports, doc_type, i + 1)

ExtractDocumentFromResponse(resp, doc_type) ==
    IF ~IsJson(resp.ctype) THEN Ok("None")
    ELSE IF ~resp.decodes THEN Err("JSONDecodeError")
    ELSE ExtractFrom(Get(resp.body, "reports", << >>), doc_type, 1)

(***************************************************************************)
(* DHL client: operations.  Each takes the response cache and the          *)
(* responses the HTTP session gives to the requests it sends, and returns  *)
(* the outcome, the requests sent and the cache afterwards.                *)
(***************************************************************************)

PrintDocumentsRequest(ti_data, option) ==
    [endpoint |-> "print_documents", shipment |-> ti_data, options |-> option]

PrintByIdRequest(shipment_id) ==
    [endpoint |-> "print_by_id", transportInstructionId |-> shipment_id,
     options |-> "label"]

\* DHLClient._print_documents
PrintDocuments(ti_data, resp) ==
    IF resp.status # "ok" THEN Err("HTTPError") ELSE ExtractLabelFromResponse(resp)

\* DHLClient._print_documents_by_id
PrintDocumentsById(shipment_id, resp) ==
    IF resp.status # "ok" THEN Err("HTTPError") ELSE ExtractLabelFromResponse(resp)

\* a cache that keeps only the latest creation response
CachePutEvicting(cache, k, v) == [x \in {k} |-> v]

\* self._ti_cache[k] = v
CachePut(cache, k, v) ==
    [x \in DOMAIN cache \cup {k} |-> IF x = k THEN v ELSE cache[x]]

\* tracking number: pieces[0].id[0], else pieces[0].barcodeId, else ""
BarcodeOf(ti) ==
    LET pieces == Get(ti, "pieces", << >>)
    IN  IF ~Truthy(pieces) THEN ""
        ELSE LET piece_ids == Get(pieces[1], "id", << >>)
             IN  IF Truthy(piece_ids) THEN piece_ids[1]
                 ELSE Get(pieces[1], "barcodeId", "")

\* a creation that caches the response body as received, envelope included
CreateShipmentCachesBody(cache, resp) ==
    IF resp.status # "ok"
    THEN [ok |-> FALSE, err |-> resp.status, shipment_id |-> "",
          tracking_number |-> "", cache |-> cache]
    ELSE LET data == resp.body
             ti == Get(data, "transportInstruction", data)
             ti_id == Get(ti, "id", "")
         IN  [ok |-> TRUE, err |-> "", shipment_id |-> ti_id,
              tracking_number |-> BarcodeOf(ti),
              cache |-> CachePut(cache, ti_id, data)]

\* DHLClient.create_shipment
CreateShipment(cache, resp) ==
    IF resp.status # "ok"
    THEN [ok |-> FALSE, err |-> resp.status, shipment_id |-> "",
          tracking_number |-> "", cache |-> cache]
    ELSE LET data == resp.body
             ti == Get(data, "transportInstruction", data)
             ti_id == Get(ti, "id", "")
         IN  [ok |-> TRUE, err |-> "", shipment_id |-> ti_id,
              tracking_number |-> BarcodeOf(ti),
              cache |-> CachePut(cache, ti_id, ti)]

\* self._ti_cache.get(shipment_id): << >> stands for None as well as for {}
CacheGet(cache, shipment_id) == Get(cache, shipment_id, << >>)

\* DHLClient.get_label
GetLabel(cache, shipment_id, r1, r2) ==
    LET ti_data == CacheGet(cache, shipment_id)
        tier1 == Truthy(ti_data)
        first == PrintDocuments(ti_data, r1)
        second == PrintDocumentsById(shipment_id, r2)
        req1 == IF tier1 THEN <<PrintDocumentsRequest(ti_data, "label")>> ELSE << >>
    IN  IF tier1 /\ first.ok
        THEN [ok |-> TRUE, val |-> first.val, reqs |-> req1]
        ELSE [ok |-> second.ok,
              val |-> IF second.ok THEN second.val ELSE "RuntimeError",
              reqs |-> req1 \o <<PrintByIdRequest(shipment_id)>>]

\* a get_all_documents that falls back to print-documents-by-id, as get_label
\* does, when the cache has nothing for the id
GetAllDocumentsFallsBackById(cache, shipment_id, r1, r2) ==
    LET ti_data == CacheGet(cache, shipment_id)
        label == IF Truthy(ti_data) THEN PrintDocuments(ti_data, r1)
                 ELSE PrintDocumentsById(shipment_id, r1)
        list == IF r2.status # "ok" THEN Err("HTTPError")
                ELSE ExtractDocumentFromResponse(r2, "ShipmentList")
        req1 == IF Truthy(ti_data) THEN PrintDocumentsRequest(ti_data, "label")
                ELSE PrintByIdRequest(shipment_id)
    IN  IF ~label.ok
        THEN [ok |-> FALSE, label |-> label.val, shipment_list |-> "None",
              reqs |-> <<req1>>]
        ELSE [ok |-> TRUE, label |-> label.val,
              shipment_list |-> IF list.ok /\ Truthy(ti_data) THEN list.val ELSE "None",
              reqs |-> IF Truthy(ti_data)
                       THEN <<req1, PrintDocumentsRequest(ti_data, "shipmentList")>>
                       ELSE <<req1>>]

\* a get_all_documents without the try/except around the shipment list fetch
GetAllDocumentsListRaises(cache, shipment_id, r1, r2) ==
    LET ti_data == CacheGet(cache, shipment_id)
        label == PrintDocuments(ti_data, r1)
        list == IF r2.status # "ok" THEN Err("HTTPError")
                ELSE ExtractDocumentFromResponse(r2, "ShipmentList")
    IN  IF ~Truthy(ti_data)
        THEN [ok |-> FALSE, label |-> "no cached TI", shipment_list |-> "None",
              reqs |-> << >>]
        ELSE IF ~label.ok
        THEN [ok |-> FALSE, label |-> label.val, shipment_list |-> "None",
              reqs |-> <<PrintDocumentsRequest(ti_data, "label")>>]
        ELSE [ok |-> list.ok, label |-> IF list.ok THEN label.val ELSE list.val,
              shipment_list |-> IF list.ok THEN list.val ELSE "None",
              reqs |-> <<PrintDocumentsRequest(ti_data, "label"),
                         PrintDocumentsRequest(ti_data, "shipmentList")>>]

\* DHLClient.get_all_documents
GetAllDocuments(cache, shipment_id, r1, r2) ==
    LET ti_data == CacheGet(cache, shipment_id)
        label == PrintDocuments(ti_data, r1)
        list == IF r2.status # "ok" THEN Err("HTTPError")
                ELSE ExtractDocumentFromResponse(r2, "ShipmentList")
    IN  IF ~Truthy(ti_data)
        THEN [ok |-> FALSE, label |-> "no cached TI", shipment_list |-> "None",
              reqs |-> << >>]
        ELSE IF ~label.ok
        THEN [ok |-> FALSE, label |-> label.val, shipment_list |-> "None",
              reqs |-> <<PrintDocumentsRequest(ti_data, "label")>>]
        ELSE [ok |-> TRUE, label |-> label.val,
              shipment_list |-> IF list.ok THEN list.val ELSE "None",
              reqs |-> <<PrintDocumentsRequest(ti_data, "label"),
                         PrintDocumentsRequest(ti_data, "shipmentList")>>]

\* DHLClient.request_pickup: the outcome of the POST, raise_for_status and
\* response.json()
RequestPickup(shipment_id, pickup_date, status) ==
    [ok |-> status = "ok",
     reqs |-> <<[endpoint |-> "pickup_request",
                 transportInstructionId |-> shipment_id,
                 pickupDate |-> pickup_date]>>]

(***************************************************************************)
(* Orchestrator: the per-shipment pipeline                                 *)
(***************************************************************************)

\* BookingInfo of a shipment; NoBooking stands for None
NoBooking == << >>
Booking(flag, date) == [pickup_booking |-> flag, pickup_date |-> date]

\* what the pipeline reads of a parsed Shipment: its order number, the
\* carrier of its service, its booking, whether it has both a receiver
\* e-mail address and an "enot" notification, and whether it has a receiver
\* at all (parse_file leaves receiver None when neither the shipment element
\* nor the root has a receiver element)
Shipment(order_no, carrier, booking, wants_email, has_receiver) ==
    [order_no |-> order_no, carrier |-> carrier, booking |-> booking,
     wants_email |-> wants_email, has_receiver |-> has_receiver]

LabelFile(order_no) == [order_no |-> order_no, suffix |-> ".pdf"]
ListFile(order_no) == [order_no |-> order_no, suffix |-> "_shipmentlist.pdf"]

\* Path.write_bytes: the file holds exactly the bytes written last
WriteBytes(files, name, data) ==
    [f \in DOMAIN files \cup {name} |-> IF f = name THEN data ELSE files[f]]

\* data[:n] for every n < len(data), on the documents of the model: the
\* proper prefixes of data, the one of n bytes at index n + 1
ProperPrefixes(data) ==
    CASE data \in {"LBL", "LB2"} -> <<"", "L", "LB">>
      [] data = "LST" -> <<"", "L", "LS">>
      [] data = "DOC" -> <<"", "D", "DO">>
      [] data = "%PDF" -> <<"", "%", "%P", "%PD">>
      [] data = "RAW" -> <<"", "R", "RA">>
      [] OTHER -> <<"">>

\* no write_bytes raises
NoWriteFailure == [at |-> "none", written |-> 0]

\* open(mode="wb") raises: the file is as it was
FailsAtOpen == [at |-> "open", written |-> 0]

\* how a write_bytes that raises may fail: at open; or open has created or
\* truncated the file and write raises with `written` bytes of the data in
\* it, none, or any number short of all (the documents the carrier answers
\* of the model hold have the length of "LBL")
WriteFailures ==
    {FailsAtOpen} \cup
    {[at |-> "write", written |-> i - 1] : i \in DOMAIN ProperPrefixes("LBL")}

\* Path.write_bytes raising: what it leaves in the directory
FailedWrite(files, name, data, how) ==
    IF how.at = "open" THEN files
    ELSE LET prefixes == ProperPrefixes(data)
             n == IF how.written < Len(prefixes) THEN how.written + 1 ELSE Len(prefixes)
         IN  WriteBytes(files, name, prefixes[n])

Step(name) == <<name>>

\* a pipeline that gives the shipment up when the label does not print
AfterCarrierPrintFatal(shipment, tracking, docs, cache, files, env, steps) ==
    LET files1 == WriteBytes(files, LabelFile(shipment.order_no), docs.label)
        has_list == docs.shipment_list \notin {"None", ""}
        files2 == IF has_list
                  THEN WriteBytes(files1, ListFile(shipment.order_no), docs.shipment_list)
                  ELSE files1
        steps1 == steps \o Step("write_label") \o Step("print_label")
        steps2 == IF has_list
                  THEN steps1 \o Step("write_list") \o Step("print_document")
                  ELSE steps1
        steps3 == IF shipment.wants_email THEN steps2 \o Step("send_email") ELSE steps2
    IN  IF ~env.print_label
        THEN [ok |-> FALSE, error |-> "print failed", tracking |-> "", cache |-> cache,
              files |-> files1, printed |-> FALSE, steps |-> steps1]
        ELSE [ok |-> TRUE, error |-> "", tracking |-> tracking, cache |-> cache,
              files |-> files2, printed |-> env.print_label,
              steps |-> steps3 \o Step("shipment_ok")]

\* the part of _process_single after the carrier exchange: persist, print,
\* e-mail.  env.print_label, env.print_document and env.email are the values
\* the printer and e-mail collaborators return; env.disk names the write to
\* the label cache that raises, if one does, env.write_failure how it fails,
\* and env.print_label_raises says that print_label raises (no label printer
\* is configured and the file it saves instead cannot be written).
AfterCarrier(shipment, tracking, docs, cache, files, env, steps) ==
    LET files1 == WriteBytes(files, LabelFile(shipment.order_no), docs.label)
        has_list == docs.shipment_list \notin {"None", ""}
        files2 == IF has_list
                  THEN WriteBytes(files1, ListFile(shipment.order_no), docs.shipment_list)
                  ELSE files1
        steps1 == steps \o Step("write_label") \o Step("print_label")
        steps2 == IF has_list
                  THEN steps1 \o Step("write_list") \o Step("print_document")
                  ELSE steps1
        steps3 == IF shipment.wants_email THEN steps2 \o Step("send_email") ELSE steps2
        disk == Get(env, "disk", "ok")
        how == Get(env, "write_failure", FailsAtOpen)
    IN  IF disk = "label_fails"
        THEN [ok |-> FALSE, error |-> "OSError", tracking |-> "", cache |-> cache,
              files |-> FailedWrite(files, LabelFile(shipment.order_no), docs.label, how),
              printed |-> FALSE, steps |-> steps \o Step("write_label")]
        ELSE IF Get(env, "print_label_raises", FALSE)
        THEN [ok |-> FALSE, error |-> "OSError", tracking |-> "", cache |-> cache,
              files |-> files1, printed |-> FALSE, steps |-> steps1]
        ELSE IF has_list /\ disk = "list_fails"
        THEN [ok |-> FALSE, error |-> "OSError", tracking |-> "", cache |-> cache,
              files |-> FailedWrite(files1, ListFile(shipment.order_no),
                                    docs.shipment_list, how),
              printed |-> env.print_label,
              steps |-> steps1 \o Step("write_list")]
        ELSE [ok |-> TRUE, error |-> "", tracking |-> tracking, cache |-> cache,
              files |-> files2, printed |-> env.print_label,
              steps |-> steps3 \o Step("shipment_ok")]

Failed(error, cache, files, steps) ==
    [ok |-> FALSE, error |-> error, tracking |-> "", cache |-> cache,
     files |-> files, printed |-> FALSE, steps |-> steps]

RequestSteps(reqs) ==
    [i \in DOMAIN reqs |->
       IF reqs[i].endpoint = "print_documents"
       THEN IF reqs[i].options = "label" THEN "print_documents:label"
            ELSE "print_documents:shipmentList"
       ELSE reqs[i].endpoint]

\* a pipeline that logs a failed pickup request and goes on
ProcessSingleSwallowsPickup(shipment, cache, files, env) ==
    IF shipment.carrier # "DHL"
    THEN Failed("ValueError: carrier not supported", cache, files, << >>)
    ELSE IF ~shipment.has_receiver
    THEN \* create_shipment builds the payload before it sends anything:
         \* recv.zipcode on None
         Failed("AttributeError", cache, files, << >>)
    ELSE
    LET result == CreateShipment(cache, env.create)
        steps0 == Step("create_shipment")
    IN  IF ~result.ok THEN Failed(result.err, cache, files, steps0)
        ELSE
        LET documents == GetAllDocuments(result.cache, result.shipment_id, env.r1, env.r2)
            steps1 == steps0 \o RequestSteps(documents.reqs)
            booking == shipment.booking
            wants_pickup == /\ Truthy(booking)
                            /\ booking.pickup_booking
                            /\ booking.pickup_date # ""
        IN  IF ~documents.ok
            THEN Failed(documents.label, result.cache, files, steps1)
            ELSE AfterCarrier(shipment, result.tracking_number, documents, result.cache,
                              files, env,
                              IF wants_pickup THEN steps1 \o Step("pickup_request")
                              ELSE steps1)

\* a pipeline that hands the shipments of every carrier to the DHL client
ProcessSingleAnyCarrier(shipment, cache, files, env) ==
    IF ~shipment.has_receiver
    THEN Failed("AttributeError", cache, files, << >>)
    ELSE
    LET result == CreateShipment(cache, env.create)
        steps0 == Step("create_shipment")
    IN  IF ~result.ok THEN Failed(result.err, cache, files, steps0)
        ELSE
        LET documents == GetAllDocuments(result.cache, result.shipment_id, env.r1, env.r2)
            steps1 == steps0 \o RequestSteps(documents.reqs)
            booking == shipment.booking
            wants_pickup == /\ Truthy(booking)
                            /\ booking.pickup_booking
                            /\ booking.pickup_date # ""
            pickup == RequestPickup(result.shipment_id,
                                    IF wants_pickup THEN booking.pickup_date ELSE "",
                                    env.pickup)
        IN  IF ~documents.ok
            THEN Failed(documents.label, result.cache, files, steps1)
            ELSE IF wants_pickup /\ ~pickup.ok
            THEN Failed("HTTPError", result.cache, files, steps1 \o Step("pickup_request"))
            ELSE AfterCarrier(shipment, result.tracking_number, documents, result.cache,
                              files, env,
                              IF wants_pickup THEN steps1 \o Step("pickup_request")
                              ELSE steps1)

\* ShipmentOrchestrator._process_single up to the shipment_ok notification.
\* env holds what the collaborators answer: the carrier's responses to the
\* creation, the two print requests and the pickup request, and the return
\* values of the printer and the e-mail sender.
ProcessSingle(shipment, cache, files, env) ==
    IF shipment.carrier # "DHL"
    THEN Failed("ValueError: carrier not supported", cache, files, << >>)
    ELSE IF ~shipment.has_receiver
    THEN \* create_shipment builds the payload before it sends anything:
         \* recv.zipcode on None
         Failed("AttributeError", cache, files, << >>)
    ELSE
    LET result == CreateShipment(cache, env.create)
        steps0 == Step("create_shipment")
    IN  IF ~result.ok THEN Failed(result.err, cache, files, steps0)
        ELSE
        LET documents == GetAllDocuments(result.cache, result.shipment_id, env.r1, env.r2)
            steps1 == steps0 \o RequestSteps(documents.reqs)
            booking == shipment.booking
            wants_pickup == /\ Truthy(booking)
                            /\ booking.pickup_booking
                            /\ booking.pickup_date # ""
            pickup == RequestPickup(result.shipment_id,
                                    IF wants_pickup THEN booking.pickup_date ELSE "",
                                    env.pickup)
        IN  IF ~documents.ok
            THEN Failed(documents.label, result.cache, files, steps1)
            ELSE IF wants_pickup /\ ~pickup.ok
            THEN Failed("HTTPError", result.cache, files, steps1 \o Step("pickup_request"))
            ELSE AfterCarrier(shipment, result.tracking_number, documents, result.cache,
                              files, env,
                              IF wants_pickup THEN steps1 \o Step("pickup_request")
                              ELSE steps1)

\* carrier requests among the steps of a shipment
CarrierSteps ==
    {"create_shipment", "print_documents:label", "print_documents:shipmentList",
     "print_by_id", "pickup_request"}

RECURSIVE CountIn(_, _)
CountIn(steps, S) ==
    IF steps = << >> THEN 0
    ELSE (IF Head(steps) \in S THEN 1 ELSE 0) + CountIn(Tail(steps), S)

(***************************************************************************)
(* State                                                                   *)
(***************************************************************************)

VARIABLES
    \* one DHL client driven directly
    ti_cache,     \* DHLClient._ti_cache
    last,         \* the client's last operation: arguments, responses, outcome
    sent,         \* for each shipment id, the object the last successful creation
                  \* returning that id unwrapped from its response
    ops,          \* operations performed on the client so far
    \* the file system and the clock
    now,          \* datetime.now().timestamp(), in seconds
    lock,         \* the lock marker beside the input file
    in_input,     \* the input file is in the watched directory
    done_dir,     \* files archived in done_dir
    error_dir,    \* files and .error.txt companions archived in error_dir
    label_files,  \* label_cache_dir: file name -> bytes
    content,      \* what the input file holds
    \* the process_file calls
    pc,           \* where each call stands
    ret,          \* what each call returned
    all_ok,       \* the local all_ok of each call
    idx,          \* the shipment each call handles next
    exc,          \* the exception each call is handling or propagating
    events,       \* the events each call gave to on_event, in order
    attempts,     \* the order numbers each call passed to _process_single
    requests,     \* carrier requests each call has sent
    orch_cache,   \* _ti_cache of each call's DHL client
    held,         \* each call is between its lock acquisition and its release
    via,          \* how each call got the lock: "create", "reclaim", or "none"
    parsed,       \* parse_file returned the shipments to the call
    handled,      \* how each call's latest _process_single went: the shipment,
                  \* the steps taken, and what the collaborators answered to
                  \* the pickup request and the print jobs it made
    on_event,     \* self.on_event of each call's orchestrator: whether a callback
                  \* is set, and the event types on which it raises
    orch,         \* the orchestrator each call is made on: calls on the same
                  \* orchestrator use one DHL client and one _ti_cache
    work          \* the _process_single each call is inside of, << >> when in
                  \* none: how it goes with the answers it gets, and the step
                  \* it is in
VARIABLES
    \* the folder watcher of one service
    size,         \* st_size of the input file
    started,      \* the service: its phase, "startup", "sweep"
                  \* (process_existing_files is in process_file), "swept" (it
                  \* has returned) or "live" (start() was called), and
                  \* whether stop() was called
                  \* (the observer is stopped: it delivers no event any more)
    queue,        \* creation events the observer has queued for the handler
    emitted,      \* creation events the observer has queued so far
    wpc,          \* where each on_created callback stands: "idle", "add", "poll",
                  \* "process", "in_process", or "escaped" when an exception
                  \* left it
    prev_size,    \* _wait_for_stability of each callback: prev_size
    polls,        \* _wait_for_stability: iterations of the loop begun so far
    seen,         \* the sizes the last two polls observed, -1 for no poll
    outcome,      \* how the latest stability check ended, "none" while it runs
    processing,   \* XMLFileHandler._processing
    wcalls        \* the process_file calls the watcher made: by the sweep or by
                  \* the event handler, and the outcome of the stability
                  \* check that came before ("none" when there was no check)

dhlVars == <<ti_cache, last, sent, ops>>

fsVars == <<now, lock, in_input, done_dir, error_dir, label_files, content>>

watchVars == <<size, started, queue, emitted, wpc, prev_size, polls, seen, outcome,
               processing, wcalls>>

callVars == <<pc, ret, all_ok, idx, exc, events, attempts, requests, orch_cache, held,
              via, parsed, handled, on_event, orch, work>>

vars == <<ti_cache, last, sent, ops,
          now, lock, in_input, done_dir, error_dir, label_files, content,
          pc, ret, all_ok, idx, exc, events, attempts, requests, orch_cache, held,
          via, parsed, handled, on_event, orch, work,
          size, started, queue, emitted, wpc, prev_size, polls, seen, outcome,
          processing, wcalls>>

(***************************************************************************)
(* The orchestrator: process_file on one input file                        *)
(***************************************************************************)

\* process_file calls on the file: one per orchestrator (process) watching it
Callers == {1, 2}

\* the thread that runs on_created: FolderWatcher builds one Observer and one
\* handler, and the observer's thread hands the handler one event at a time.
\* It makes its process_file call as caller 1
Threads == {1}

FileName == "order.xml"

\* the service when FolderWatcher is built, and when the observer is started
\* and not stopped
Startup == [phase |-> "startup", stopped |-> FALSE]
Live == [phase |-> "live", stopped |-> FALSE]

\* age in seconds above which _acquire_lock reclaims a marker
StaleAge == 300

\* the clock is observed up to MaxNow, advancing in steps of TickSteps
MaxNow == 302
TickSteps == {150, 151}

\* shipments per input file
MaxShipments == 2

\* the shipments an input file holds, by what the pipeline reads of them
ShipmentKinds ==
    { [carrier |-> "DHL", booking |-> NoBooking, wants_email |-> FALSE,
       has_receiver |-> TRUE],
      [carrier |-> "DHL", booking |-> Booking(TRUE, "2026-11-02"), wants_email |-> TRUE,
       has_receiver |-> TRUE],
      [carrier |-> "DHL", booking |-> NoBooking, wants_email |-> FALSE,
       has_receiver |-> FALSE],
      [carrier |-> "PN", booking |-> NoBooking, wants_email |-> FALSE,
       has_receiver |-> TRUE] }

\* an input file: XML the parser rejects, or an ordered list of shipments
BadXml == [parses |-> FALSE, error |-> "ParseError", shipments |-> << >>]
GoodXml(kinds) ==
    [parses |-> TRUE, error |-> "",
     shipments |-> [i \in DOMAIN kinds |->
                      Shipment(i, kinds[i].carrier, kinds[i].booking,
                               kinds[i].wants_email, kinds[i].has_receiver)]]

InputFiles ==
    {BadXml} \cup
    UNION { {GoodXml(k) : k \in [1..n -> ShipmentKinds]} : n \in 0..MaxShipments }

\* the bookings a shipment may carry: none, pickup wanted with a date, a date
\* without the pickup flag, the pickup flag without a date
PipelineKinds ==
    ShipmentKinds \cup
    { [carrier |-> "DHL", booking |-> Booking(FALSE, "2026-11-02"), wants_email |-> FALSE,
       has_receiver |-> TRUE],
      [carrier |-> "DHL", booking |-> Booking(TRUE, ""), wants_email |-> FALSE,
       has_receiver |-> TRUE] }

\* shipments per input file when the pipeline is followed step by step
MaxPipelineShipments == 2

PipelineFiles ==
    {BadXml} \cup
    UNION { {GoodXml(k) : k \in [1..n -> PipelineKinds]} : n \in 0..MaxPipelineShipments }

\* GarpXMLParser.parse_file on the input file
ParseFile(present, file) ==
    IF ~present THEN Err("FileNotFoundError")
    ELSE IF ~file.parses THEN Err(file.error)
    ELSE Ok(file.shipments)

\* what the collaborators may answer while one shipment is handled
CarrierEnvs ==
    [create : { [status |-> "http_error", body |-> TIEmpty],
                [status |-> "ok",
                 body |-> [status |-> "Succes", transportInstruction |-> TIFull]] },
     r1 : { r \in PrintResponses :
              \/ r.status = "http_error"
              \/ r.body = [reports |-> <<Report("Label", "TEJM")>>] },
     r2 : { r \in PrintResponses :
              \/ r.status = "http_error"
              \/ r.body = [reports |-> <<Report("ShipmentList", "TFNU"),
                                          Report("Label", "TEJM")>>] },
     pickup : {"ok", "http_error"},
     print_label : BOOLEAN,
     print_document : BOOLEAN,
     email : BOOLEAN]

NoLock == [exists |-> FALSE, mtime |-> 0, owner |-> 0]
Marker(t, c) == [exists |-> TRUE, mtime |-> t, owner |-> c]

\* the timestamp-prefixed archive name
Archived(ts, name) == [ts |-> ts, name |-> name, suffix |-> ".xml"]
ErrorTxt(ts, name, reason) ==
    [ts |-> ts, name |-> name, suffix |-> ".error.txt", reason |-> reason]

ShipmentOk(shipment, tracking) ==
    [type |-> "shipment_ok", order_no |-> shipment.order_no, tracking |-> tracking,
     carrier |-> shipment.carrier]
ShipmentError(shipment, error) ==
    [type |-> "shipment_error", order_no |-> shipment.order_no, error |-> error]
FileDone == [type |-> "file_done", filename |-> FileName]
FileError(error) == [type |-> "file_error", filename |-> FileName, error |-> error]

PartialFailure == "Delvis misslyckad bearbetning"

\* _wait_for_stability: range(10)
MaxPolls == 10

\* sizes the input file may have
MaxSize == 2

\* creation events the observer delivers
MaxEvents == 2

\* no on_created callback has begun
HandlerAtRest ==
    /\ wpc = [t \in Threads |-> "idle"]
    /\ prev_size = [t \in Threads |-> -1]
    /\ polls = [t \in Threads |-> 0]
    /\ seen = [t \in Threads |-> <<-1, -1>>]
    /\ outcome = [t \in Threads |-> "none"]

EventTypes == {"shipment_ok", "shipment_error", "file_done", "file_error"}

\* self.on_event: None, or a callable that raises on the event types of raises
\* and returns on the others
NoCallback == [set |-> FALSE, raises |-> {}]
Callback(raises) == [set |-> TRUE, raises |-> raises]

\* what a raising callback raises
CallbackError == "CallbackError"

OnEventRaises(cb, type) == cb.set /\ type \in cb.raises

\* a _notify that lets the callback's exception through
NotifyPropagates(cb, type) == OnEventRaises(cb, type)

\* _notify: an exception leaves it (FALSE: never); on_event is called inside
\* try/except Exception, and not at all when no callback is set
NotifyEscapes(cb, type) ==
    IF ~cb.set THEN FALSE
    ELSE \* except Exception: logged as a warning
         FALSE

\* no watcher: the file is complete and nothing is queued
WatcherOff ==
    /\ size = 1
    /\ started = Live
    /\ queue = << >>
    /\ emitted = 0
    /\ HandlerAtRest
    /\ processing = {}
    /\ wcalls = << >>

\* the calls before they start, call c on orchestrator on[c], the orchestrators
\* built with the callbacks cb
InitCallsOn(cb, on) ==
    /\ pc = [c \in Callers |-> "idle"]
    /\ ret = [c \in Callers |-> "none"]
    /\ all_ok = [c \in Callers |-> TRUE]
    /\ idx = [c \in Callers |-> 1]
    /\ exc = [c \in Callers |-> ""]
    /\ events = [c \in Callers |-> << >>]
    /\ attempts = [c \in Callers |-> << >>]
    /\ requests = [c \in Callers |-> 0]
    /\ orch_cache = [c \in Callers |-> << >>]
    /\ held = [c \in Callers |-> FALSE]
    /\ via = [c \in Callers |-> "none"]
    /\ parsed = [c \in Callers |-> FALSE]
    /\ handled = [c \in Callers |-> << >>]
    /\ on_event = cb
    /\ orch = on
    /\ work = [c \in Callers |-> << >>]

\* every call on an orchestrator of its own (a service of its own)
InitCallsWith(cb) == InitCallsOn(cb, [c \in Callers |-> c])

\* the calls of one service: its watcher has one handler and one orchestrator
\* (service.py builds one of each), whose callback returns
InitServiceCalls ==
    InitCallsOn([c \in Callers |-> Callback({})], [c \in Callers |-> 1])

\* every orchestrator has a callback that returns
InitCalls == InitCallsWith([c \in Callers |-> Callback({})])

\* an input file waits in the watched directory; a marker left by an earlier
\* run may lie beside it
InitFiles ==
    /\ now = 0
    /\ lock \in {NoLock, Marker(0, 0)}
    /\ in_input = TRUE
    /\ done_dir = {}
    /\ error_dir = {}
    /\ label_files = << >>
    /\ content \in InputFiles

\* time passes
Tick ==
    /\ UNCHANGED <<dhlVars, watchVars>>
    /\ \E d \in TickSteps : now + d <= MaxNow /\ now' = now + d
    /\ UNCHANGED <<lock, in_input, done_dir, error_dir, label_files, content>>
    /\ UNCHANGED callVars

\* process_file(filepath) is called
Call(c) ==
    /\ UNCHANGED <<dhlVars, watchVars, on_event, orch, work>>
    /\ pc[c] = "idle"
    /\ pc' = [pc EXCEPT ![c] = "acquire_create"]
    /\ UNCHANGED <<ret, all_ok, idx, exc, events, attempts, requests, orch_cache, held, via, parsed, handled>>
    /\ UNCHANGED fsVars

\* the call ends: it returns value, or raises when value is "raised"
Returns(c, value) ==
    /\ pc' = [pc EXCEPT ![c] = "returned"]
    /\ ret' = [ret EXCEPT ![c] = value]

\* _acquire_lock, lock_path.open("x"): creates the marker unless it exists
AcquireCreate(c) ==
    /\ UNCHANGED <<dhlVars, watchVars, on_event, orch, work>>
    /\ pc[c] = "acquire_create"
    /\ IF ~lock.exists
       THEN /\ lock' = Marker(now, c)
            /\ held' = [held EXCEPT ![c] = TRUE]
            /\ via' = [via EXCEPT ![c] = "create"]
            /\ pc' = [pc EXCEPT ![c] = "parse"]
       ELSE /\ pc' = [pc EXCEPT ![c] = "acquire_exists"]
            /\ UNCHANGED <<lock, held, via>>
    /\ UNCHANGED <<ret, all_ok, idx, exc, events, attempts, requests, orch_cache, parsed, handled>>
    /\ UNCHANGED <<now, in_input, done_dir, error_dir, label_files, content>>

\* _acquire_lock, after FileExistsError: lock_path.exists()
AcquireExists(c) ==
    /\ UNCHANGED <<dhlVars, watchVars, on_event, orch, work>>
    /\ pc[c] = "acquire_exists"
    /\ IF lock.exists
       THEN pc' = [pc EXCEPT ![c] = "acquire_stat"] /\ UNCHANGED ret
       ELSE Returns(c, "False")
    /\ UNCHANGED <<all_ok, idx, exc, events, attempts, requests, orch_cache, held, via, parsed, handled>>
    /\ UNCHANGED fsVars

\* a misreading of the threshold: a marker of exactly 300 s counts as stale
IsStaleAtThreshold(age) == age >= StaleAge

\* a misreading of the threshold: 300 taken as minutes
IsStaleInMinutes(age) == age > StaleAge * 60

\* _acquire_lock: age > 300
IsStale(age) == age > StaleAge

\* _acquire_lock: age = now - lock_path.stat().st_mtime; if age > 300
AcquireStat(c) ==
    /\ UNCHANGED <<dhlVars, watchVars, on_event, orch, work>>
    /\ pc[c] = "acquire_stat"
    /\ IF ~lock.exists
       THEN Returns(c, "raised") /\ exc' = [exc EXCEPT ![c] = "FileNotFoundError"]
       ELSE IF IsStale(now - lock.mtime)
       THEN pc' = [pc EXCEPT ![c] = "acquire_unlink"] /\ UNCHANGED <<ret, exc>>
       ELSE Returns(c, "False") /\ UNCHANGED exc
    /\ UNCHANGED <<all_ok, idx, events, attempts, requests, orch_cache, held, via, parsed, handled>>
    /\ UNCHANGED fsVars

\* _acquire_lock: lock_path.unlink() of the stale marker
AcquireUnlink(c) ==
    /\ UNCHANGED <<dhlVars, watchVars, on_event, orch, work>>
    /\ pc[c] = "acquire_unlink"
    /\ IF ~lock.exists
       THEN /\ Returns(c, "raised")
            /\ exc' = [exc EXCEPT ![c] = "FileNotFoundError"]
            /\ UNCHANGED lock
       ELSE /\ lock' = NoLock
            /\ pc' = [pc EXCEPT ![c] = "acquire_recreate"]
            /\ UNCHANGED <<ret, exc>>
    /\ UNCHANGED <<all_ok, idx, events, attempts, requests, orch_cache, held, via, parsed, handled>>
    /\ UNCHANGED <<now, in_input, done_dir, error_dir, label_files, content>>

\* _acquire_lock: lock_path.open("x") after the unlink
AcquireRecreate(c) ==
    /\ UNCHANGED <<dhlVars, watchVars, on_event, orch, work>>
    /\ pc[c] = "acquire_recreate"
    /\ IF lock.exists
       THEN /\ Returns(c, "raised")
            /\ exc' = [exc EXCEPT ![c] = "FileExistsError"]
            /\ UNCHANGED <<lock, held, via>>
       ELSE /\ lock' = Marker(now, c)
            /\ held' = [held EXCEPT ![c] = TRUE]
            /\ via' = [via EXCEPT ![c] = "reclaim"]
            /\ pc' = [pc EXCEPT ![c] = "parse"]
            /\ UNCHANGED <<ret, exc>>
    /\ UNCHANGED <<all_ok, idx, events, attempts, requests, orch_cache, parsed, handled>>
    /\ UNCHANGED <<now, in_input, done_dir, error_dir, label_files, content>>

\* process_file: shipments = self.parser.parse_file(filepath)
Parse(c) ==
    /\ UNCHANGED <<dhlVars, watchVars, on_event, orch, work>>
    /\ pc[c] = "parse"
    /\ LET shipments == ParseFile(in_input, content)
       IN  IF shipments.ok
           THEN /\ pc' = [pc EXCEPT ![c] = IF shipments.val = << >> THEN "finalize"
                                           ELSE "shipments"]
                /\ UNCHANGED exc
           ELSE /\ pc' = [pc EXCEPT ![c] = "except"]
                /\ exc' = [exc EXCEPT ![c] = shipments.val]
    /\ parsed' = [parsed EXCEPT ![c] = ParseFile(in_input, content).ok]
    /\ idx' = [idx EXCEPT ![c] = 1]
    /\ UNCHANGED <<ret, all_ok, events, attempts, requests, orch_cache, held, via, handled>>
    /\ UNCHANGED fsVars

\* a loop that gives up at the first failing shipment
AfterShipmentStopsAtFailure(c, ok) ==
    IF ~ok \/ idx[c] = Len(content.shipments) THEN "finalize" ELSE "shipments"

\* process_file: the for loop goes on to the next shipment, whether this one
\* failed or not, and ends after the last
AfterShipment(c, ok) ==
    IF idx[c] = Len(content.shipments) THEN "finalize" ELSE "shipments"

\* all_ok that remembers only the last shipment
AllOkOfLast(before, ok) == ok

\* process_file: all_ok = False in the handler of a failing shipment
AllOkAfter(before, ok) == before /\ ok

\* what a shipment's handling used of the collaborators' answers: the answer
\* to the pickup request if one was sent, the printer's return values for the
\* jobs that were made, how the write to the label cache failed if one did
Handling(shipment, env, res) ==
    LET took(step) == \E i \in DOMAIN res.steps : res.steps[i] = step
    IN  [shipment |-> shipment,
         steps |-> res.steps,
         pickup |-> IF took("pickup_request") THEN env.pickup ELSE "none",
         print_label |-> IF took("print_label")
                         THEN (IF Get(env, "print_label_raises", FALSE) THEN "raised"
                               ELSE IF env.print_label THEN "printed" ELSE "failed")
                         ELSE "none",
         print_document |-> IF took("print_document")
                            THEN (IF env.print_document THEN "printed" ELSE "failed")
                            ELSE "none",
         write_failure |-> IF /\ ~res.ok
                              /\ res.steps # << >>
                              /\ res.steps[Len(res.steps)] \in {"write_label", "write_list"}
                           THEN Get(env, "write_failure", FailsAtOpen)
                           ELSE NoWriteFailure,
         raised |-> ~res.ok]

\* a pipeline that announces the shipment as soon as its label is saved
EmittedOnceLabelSaved(shipment, res) ==
    IF res.ok THEN <<ShipmentOk(shipment, res.tracking)>>
    ELSE IF \E i \in DOMAIN res.steps : res.steps[i] = "print_label"
    THEN <<ShipmentOk(shipment, res.tracking), ShipmentError(shipment, res.error)>>
    ELSE <<ShipmentError(shipment, res.error)>>

\* the shipment events of one turn: shipment_ok at the end of
\* _process_single, shipment_error in the handler of process_file
Emitted(shipment, res) ==
    IF res.ok THEN <<ShipmentOk(shipment, res.tracking)>>
    ELSE <<ShipmentError(shipment, res.error)>>

\* process_file: one turn of the loop over the shipments, _process_single with
\* its exception handler
\* the step of _process_single the call is in
StepAt(w) == w.res.steps[w.at]

\* the step the call is in ends with the exception that ends _process_single
StepRaises(w) == w.at = Len(w.res.steps) /\ ~w.res.ok

\* requests a step sends to the carrier
Sends(step) == IF step \in CarrierSteps THEN 1 ELSE 0

\* the _ti_cache of every call when call c leaves the step it is in:
\* create_shipment stores the creation response in the cache of c's client,
\* which the calls on the same orchestrator share
CacheAfterStep(c, w) ==
    IF StepAt(w) = "create_shipment"
    THEN [d \in Callers |->
            IF orch[d] = orch[c] THEN CreateShipment(orch_cache[c], w.create).cache
            ELSE orch_cache[d]]
    ELSE orch_cache

\* label_cache_dir when the call leaves the step it is in: write_bytes of the
\* label (step 3) and of the shipment list (step 5). A write that raised at
\* open leaves the directory as it is; one that raised later leaves the file
\* with what got into it
FilesAfterStep(w) ==
    LET order_no == w.handling.shipment.order_no
        name == IF StepAt(w) = "write_label" THEN LabelFile(order_no)
                ELSE ListFile(order_no)
    IN  IF StepAt(w) \notin {"write_label", "write_list"} THEN label_files
        ELSE IF StepRaises(w) /\ w.handling.write_failure.at = "open" THEN label_files
        ELSE WriteBytes(label_files, name, w.res.files[name])

\* process_file: _process_single has returned or raised; the handler of the
\* loop, and on to the next shipment
EndShipment(c, res, handling) ==
    LET shipment == handling.shipment
        \* an exception leaving _notify("shipment_ok") would be one more
        \* exception of _process_single, handled by the loop
        ok_escapes == res.ok /\ NotifyEscapes(on_event[c], "shipment_ok")
        ok == res.ok /\ ~ok_escapes
        \* one leaving _notify("shipment_error") would leave the loop for
        \* the outer handler
        error_escapes == ~ok /\ NotifyEscapes(on_event[c], "shipment_error")
    IN  /\ events' = [events EXCEPT ![c] =
                        @ \o Emitted(shipment, res)
                          \o (IF ok_escapes
                              THEN <<ShipmentError(shipment, CallbackError)>>
                              ELSE << >>)]
        /\ all_ok' = [all_ok EXCEPT ![c] = IF error_escapes THEN @
                                           ELSE AllOkAfter(@, ok)]
        /\ handled' = [handled EXCEPT ![c] = handling]
        /\ pc' = [pc EXCEPT ![c] = IF error_escapes THEN "except"
                                   ELSE AfterShipment(c, ok)]
        /\ exc' = [exc EXCEPT ![c] = IF error_escapes THEN CallbackError ELSE @]
        /\ idx' = [idx EXCEPT ![c] = @ + 1]

\* process_file: the loop calls _process_single(shipment), which goes up to
\* its first request to the carrier and waits for the answer; a shipment of
\* another carrier raises at once. The answers env fix how the call goes on:
\* what it reads of shared state later is the cache entry of the id it
\* created (and every creation answered with that id carries the same
\* transportInstruction); its writes are made when their step is over
BeginShipment(c, envs) ==
    /\ UNCHANGED <<dhlVars, watchVars, on_event, orch>>
    /\ pc[c] = "shipments"
    /\ work[c] = << >>
    /\ \E env \in envs :
         LET shipment == content.shipments[idx[c]]
             res == ProcessSingle(shipment, orch_cache[c], label_files, env)
             handling == Handling(shipment, env, res)
         IN  /\ attempts' = [attempts EXCEPT ![c] = Append(@, shipment.order_no)]
             /\ IF res.steps = << >>
                THEN /\ EndShipment(c, res, handling)
                     /\ UNCHANGED <<requests, work>>
                ELSE /\ work' = [work EXCEPT ![c] =
                                   [res |-> res, handling |-> handling,
                                    create |-> env.create, at |-> 1]]
                     /\ requests' = [requests EXCEPT ![c] = @ + Sends(res.steps[1])]
                     /\ UNCHANGED <<events, all_ok, handled, pc, exc, idx>>
    /\ UNCHANGED <<orch_cache, label_files>>
    /\ UNCHANGED <<ret, held, via, parsed>>
    /\ UNCHANGED <<now, lock, in_input, done_dir, error_dir, content>>

\* _process_single: the step the call was in is over (the carrier has
\* answered, the file is written, the printer has returned) and the next one
\* is begun
AdvanceShipment(c) ==
    /\ UNCHANGED <<dhlVars, watchVars, on_event, orch>>
    /\ pc[c] = "shipments"
    /\ work[c] # << >>
    /\ work[c].at < Len(work[c].res.steps)
    /\ orch_cache' = CacheAfterStep(c, work[c])
    /\ label_files' = FilesAfterStep(work[c])
    /\ requests' = [requests EXCEPT ![c] = @ + Sends(work[c].res.steps[work[c].at + 1])]
    /\ work' = [work EXCEPT ![c].at = @ + 1]
    /\ UNCHANGED <<events, all_ok, handled, pc, exc, idx, attempts>>
    /\ UNCHANGED <<ret, held, via, parsed>>
    /\ UNCHANGED <<now, lock, in_input, done_dir, error_dir, content>>

\* _process_single: its last step is over: it returns after shipment_ok, or
\* the step raised and the handler of the loop emits shipment_error
FinishShipment(c) ==
    /\ UNCHANGED <<dhlVars, watchVars, on_event, orch>>
    /\ pc[c] = "shipments"
    /\ work[c] # << >>
    /\ work[c].at = Len(work[c].res.steps)
    /\ orch_cache' = CacheAfterStep(c, work[c])
    /\ label_files' = FilesAfterStep(work[c])
    /\ EndShipment(c, work[c].res, work[c].handling)
    /\ work' = [work EXCEPT ![c] = << >>]
    /\ UNCHANGED <<attempts, requests>>
    /\ UNCHANGED <<ret, held, via, parsed>>
    /\ UNCHANGED <<now, lock, in_input, done_dir, error_dir, content>>

\* process_file: one turn of the loop over the shipments, _process_single with
\* its exception handler, a step at a time: other calls run while this one
\* waits for the carrier, the disk, the printer or the mail server
ProcessShipment(c, envs) ==
    \/ BeginShipment(c, envs)
    \/ AdvanceShipment(c)
    \/ FinishShipment(c)

\* a copy in place of the move: the file stays in the watched directory
CopyToDone ==
    /\ done_dir' = done_dir \cup {Archived(now, FileName)}
    /\ UNCHANGED <<in_input, error_dir>>

\* _move_to_done: shutil.move to done_dir/<ts>_<name>
MoveToDone ==
    /\ in_input' = FALSE
    /\ done_dir' = done_dir \cup {Archived(now, FileName)}
    /\ UNCHANGED error_dir

\* a move to error_dir that writes no .error.txt
MoveToErrorWithoutReason(reason) ==
    /\ in_input' = FALSE
    /\ error_dir' = error_dir \cup {Archived(now, FileName)}
    /\ UNCHANGED done_dir

\* _move_to_error: shutil.move to error_dir/<ts>_<name>, then the .error.txt
MoveToError(reason) ==
    /\ in_input' = FALSE
    /\ error_dir' = error_dir \cup {Archived(now, FileName),
                                     ErrorTxt(now, FileName, reason)}
    /\ UNCHANGED done_dir

\* process_file: after the loop, archive the file and notify
Finalize(c) ==
    /\ UNCHANGED <<dhlVars, watchVars, on_event, orch, work>>
    /\ pc[c] = "finalize"
    /\ IF ~in_input
       THEN \* shutil.move raises: the outer handler takes over
            /\ pc' = [pc EXCEPT ![c] = "except"]
            /\ exc' = [exc EXCEPT ![c] = "FileNotFoundError"]
            /\ UNCHANGED <<in_input, done_dir, error_dir, events>>
       ELSE /\ IF all_ok[c]
               THEN /\ MoveToDone
                    /\ events' = [events EXCEPT ![c] = Append(@, FileDone)]
               ELSE /\ MoveToError(PartialFailure)
                    /\ events' = [events EXCEPT ![c] =
                                    Append(@, FileError(PartialFailure))]
            /\ \* an exception leaving _notify would reach the outer handler
               IF NotifyEscapes(on_event[c], IF all_ok[c] THEN "file_done"
                                             ELSE "file_error")
               THEN /\ pc' = [pc EXCEPT ![c] = "except"]
                    /\ exc' = [exc EXCEPT ![c] = CallbackError]
               ELSE /\ pc' = [pc EXCEPT ![c] = "release"]
                    /\ UNCHANGED exc
    /\ UNCHANGED <<ret, all_ok, idx, attempts, requests, orch_cache, held, via, parsed, handled>>
    /\ UNCHANGED <<now, lock, label_files, content>>

\* process_file: the outer "except Exception" handler
HandleException(c) ==
    /\ UNCHANGED <<dhlVars, watchVars, on_event, orch, work>>
    /\ pc[c] = "except"
    /\ IF ~in_input
       THEN \* _move_to_error raises inside the handler: the call will raise
            /\ UNCHANGED <<in_input, done_dir, error_dir, events, all_ok>>
            /\ exc' = [exc EXCEPT ![c] = "FileNotFoundError"]
       ELSE /\ MoveToError(exc[c])
            /\ events' = [events EXCEPT ![c] = Append(@, FileError(exc[c]))]
            /\ \* an exception leaving _notify would leave process_file
               IF NotifyEscapes(on_event[c], "file_error")
               THEN /\ UNCHANGED all_ok
                    /\ exc' = [exc EXCEPT ![c] = CallbackError]
               ELSE /\ all_ok' = [all_ok EXCEPT ![c] = FALSE]
                    /\ exc' = [exc EXCEPT ![c] = ""]
    /\ pc' = [pc EXCEPT ![c] = "release"]
    /\ UNCHANGED <<ret, idx, attempts, requests, orch_cache, held, via, parsed, handled>>
    /\ UNCHANGED <<now, lock, label_files, content>>

\* a release placed after the handlers instead of in a finally block: skipped
\* when the call is raising
ReleaseLockUnlessRaising(c) ==
    IF exc[c] # "" THEN UNCHANGED lock ELSE lock' = NoLock

\* _release_lock, called from the finally block of process_file:
\* lock_path.unlink(missing_ok=True)
ReleaseLock(c) == lock' = NoLock

\* process_file: the finally block, then return all_ok or the pending raise
Release(c) ==
    /\ UNCHANGED <<dhlVars, watchVars, on_event, orch, work>>
    /\ pc[c] = "release"
    /\ ReleaseLock(c)
    /\ held' = [held EXCEPT ![c] = FALSE]
    /\ Returns(c, IF exc[c] # "" THEN "raised"
                  ELSE IF all_ok[c] THEN "True" ELSE "False")
    /\ UNCHANGED <<all_ok, idx, exc, events, attempts, requests, orch_cache, via, parsed, handled>>
    /\ UNCHANGED <<now, in_input, done_dir, error_dir, label_files, content>>

(***************************************************************************)
(* One DHL client driven directly                                         *)
(***************************************************************************)

\* operations performed on one client
MaxOps == 2

\* identifiers the retrieval operations are called with
ShipmentIds == {"12345", "777", "", "404"}

NoResponse == [status |-> "none"]

InitDHL ==
    /\ ti_cache = << >>
    /\ sent = << >>
    /\ ops = 0
    /\ last = [op |-> "init", id |-> "", r1 |-> NoResponse, r2 |-> NoResponse,
               before |-> << >>, res |-> << >>]

\* the orchestrator at rest, for the runs that drive a client alone
Idle ==
    /\ InitCalls
    /\ WatcherOff
    /\ now = 0
    /\ lock = NoLock
    /\ in_input = TRUE
    /\ done_dir = {}
    /\ error_dir = {}
    /\ label_files = << >>
    /\ content = BadXml

\* create_shipment(shipment) with the carrier answering resp
DoCreateShipment ==
    /\ UNCHANGED <<fsVars, callVars, watchVars>>
    /\ ops < MaxOps
    /\ \E resp \in CreateResponses :
         LET res == CreateShipment(ti_cache, resp)
         IN  /\ ti_cache' = res.cache
             /\ sent' = IF resp.status = "ok"
                        THEN CachePut(sent, res.shipment_id,
                                      IF "transportInstruction" \in DOMAIN resp.body
                                      THEN resp.body.transportInstruction
                                      ELSE resp.body)
                        ELSE sent
             /\ last' = [op |-> "create_shipment", id |-> res.shipment_id, r1 |-> resp,
                         r2 |-> NoResponse, before |-> ti_cache, res |-> res]
    /\ ops' = ops + 1

\* get_label(shipment_id) with the print endpoints answering r1 and r2
DoGetLabel ==
    /\ UNCHANGED <<fsVars, callVars, watchVars>>
    /\ ops < MaxOps
    /\ \E id \in ShipmentIds, r1, r2 \in PrintResponses :
         last' = [op |-> "get_label", id |-> id, r1 |-> r1, r2 |-> r2,
                  before |-> ti_cache, res |-> GetLabel(ti_cache, id, r1, r2)]
    /\ ops' = ops + 1
    /\ UNCHANGED <<ti_cache, sent>>

\* get_all_documents(shipment_id) with the print endpoint answering r1 to the
\* label request and r2 to the shipment list request
DoGetAllDocuments ==
    /\ UNCHANGED <<fsVars, callVars, watchVars>>
    /\ ops < MaxOps
    /\ \E id \in ShipmentIds, r1, r2 \in PrintResponses :
         last' = [op |-> "get_all_documents", id |-> id, r1 |-> r1, r2 |-> r2,
                  before |-> ti_cache, res |-> GetAllDocuments(ti_cache, id, r1, r2)]
    /\ ops' = ops + 1
    /\ UNCHANGED <<ti_cache, sent>>

\* request_pickup(shipment_id, pickup_date)
DoRequestPickup ==
    /\ UNCHANGED <<fsVars, callVars, watchVars>>
    /\ ops < MaxOps
    /\ \E id \in ShipmentIds, status \in {"ok", "http_error"} :
         last' = [op |-> "request_pickup", id |-> id, r1 |-> [status |-> status],
                  r2 |-> NoResponse, before |-> ti_cache,
                  res |-> RequestPickup(id, "2026-11-02", status)]
    /\ ops' = ops + 1
    /\ UNCHANGED <<ti_cache, sent>>

\* _extract_label_from_response(response, endpoint) on a response that passed
\* raise_for_status
DoExtractLabel ==
    /\ UNCHANGED <<fsVars, callVars, watchVars>>
    /\ ops < MaxOps
    /\ \E resp \in {r \in PrintResponses : r.status = "ok"} :
         last' = [op |-> "extract_label", id |-> "", r1 |-> resp, r2 |-> NoResponse,
                  before |-> ti_cache, res |-> ExtractLabelFromResponse(resp)]
    /\ ops' = ops + 1
    /\ UNCHANGED <<ti_cache, sent>>

NextDHL ==
    \/ DoCreateShipment
    \/ DoExtractLabel
    \/ DoGetLabel
    \/ DoGetAllDocuments
    \/ DoRequestPickup

InitClient == InitDHL /\ Idle

\* one DHL client driven by any sequence of operations and carrier answers
SpecDHL == InitClient /\ [][NextDHL]_vars

(***************************************************************************)
(* Specifications of the orchestrator                                      *)
(***************************************************************************)

Init == InitDHL /\ InitFiles /\ InitCalls /\ WatcherOff

\* one process_file call on the file, as the watcher of a single service makes
Next ==
    \/ Tick
    \/ Call(1)
    \/ AcquireCreate(1)
    \/ AcquireExists(1)
    \/ AcquireStat(1)
    \/ AcquireUnlink(1)
    \/ AcquireRecreate(1)
    \/ Parse(1)
    \/ ProcessShipment(1, CarrierEnvs)
    \/ Finalize(1)
    \/ HandleException(1)
    \/ Release(1)

Spec == Init /\ [][Next]_vars

InitPipeline ==
    /\ InitDHL
    /\ InitCalls
    /\ WatcherOff
    /\ now = 0
    /\ lock = NoLock
    /\ in_input = TRUE
    /\ done_dir = {}
    /\ error_dir = {}
    /\ label_files = << >>
    /\ content \in PipelineFiles

\* one process_file call on a file no other run has locked
NextPipeline ==
    \/ Call(1)
    \/ AcquireCreate(1)
    \/ Parse(1)
    \/ ProcessShipment(1, CarrierEnvs)
    \/ Finalize(1)
    \/ HandleException(1)
    \/ Release(1)

SpecPipeline == InitPipeline /\ [][NextPipeline]_vars

\* shipments per input file when calls race
MaxRaceShipments == 1

RaceFiles ==
    {BadXml} \cup
    UNION { {GoodXml(k) : k \in [1..n -> {[carrier |-> "DHL", booking |-> NoBooking,
                                           wants_email |-> FALSE,
                                           has_receiver |-> TRUE]}]} :
            n \in 0..MaxRaceShipments }

\* the carrier accepts or refuses the creation; the label is retrieved
RaceEnvs ==
    { e \in CarrierEnvs : /\ e.r1.status = "ok"
                          /\ e.r2.status # "ok"
                          /\ e.pickup = "ok"
                          /\ e.print_label /\ e.print_document /\ e.email }

InitRace == Init /\ content \in RaceFiles

\* process_file calls of several orchestrators on the same file, interleaved
\* at the file system operations
NextRace ==
    \/ Tick
    \/ \E c \in Callers :
         \/ Call(c)
         \/ AcquireCreate(c)
         \/ AcquireExists(c)
         \/ AcquireStat(c)
         \/ AcquireUnlink(c)
         \/ AcquireRecreate(c)
         \/ Parse(c)
         \/ ProcessShipment(c, RaceEnvs)
         \/ Finalize(c)
         \/ HandleException(c)
         \/ Release(c)

SpecRace == InitRace /\ [][NextRace]_vars

(***************************************************************************)
(* The folder watcher: src/src/watcher.py                                  *)
(***************************************************************************)

\* creation events: the input file, a directory, the lock marker. overlap
\* records whether the handler had the event's file name in its in-progress
\* set when the observer queued the event; on_created does not read it
XmlEvent == [is_directory |-> FALSE, suffix |-> ".xml", overlap |-> FALSE]
OtherEvents == { [is_directory |-> TRUE, suffix |-> "", overlap |-> FALSE],
                 [is_directory |-> FALSE, suffix |-> ".lock", overlap |-> FALSE] }

\* the files the watched directory may receive: XML the parser rejects, a
\* file of one shipment; and what the carrier answers
WatchFiles ==
    {BadXml,
     GoodXml(<<[carrier |-> "DHL", booking |-> NoBooking, wants_email |-> FALSE,
                has_receiver |-> TRUE]>>)}
WatchEnvs == RaceEnvs

InitWatch ==
    /\ InitDHL
    /\ InitServiceCalls
    /\ now = 0
    /\ lock = NoLock
    /\ in_input \in BOOLEAN
    /\ done_dir = {}
    /\ error_dir = {}
    /\ label_files = << >>
    /\ content \in WatchFiles
    /\ size \in (IF in_input THEN 0..MaxSize ELSE {0})
    /\ started = Startup
    /\ queue = << >>
    /\ emitted = 0
    /\ HandlerAtRest
    /\ processing = {}
    /\ wcalls = << >>

\* no process_file call is running. The exporter's creations and writes and
\* the other creations are followed between the calls: process_file reads
\* neither the size nor the queue, and a file created while a call runs on a
\* name that is gone is there when the call has returned, as one created
\* then; the removal of the file is followed at every moment
NoCallRunning == \A c \in Callers : pc[c] \in {"idle", "returned"}

\* the event the observer queues for a creation in the watched directory,
\* once it is started
Emit(event) ==
    IF started = Live /\ emitted < MaxEvents
    THEN /\ queue' = Append(queue, [event EXCEPT !.overlap =
                                      event.suffix = ".xml" /\ FileName \in processing])
         /\ emitted' = emitted + 1
    ELSE UNCHANGED <<queue, emitted>>

\* the exporter creates the input file
Create ==
    /\ NoCallRunning
    /\ ~in_input
    /\ emitted < MaxEvents
    /\ in_input' = TRUE
    /\ \E s \in 0..MaxSize : size' = s
    /\ Emit(XmlEvent)
    /\ UNCHANGED <<now, lock, done_dir, error_dir, label_files, content>>
    /\ UNCHANGED <<started, wpc, prev_size, polls, seen, outcome, processing, wcalls>>
    /\ UNCHANGED <<dhlVars, callVars>>

\* the exporter writes to the input file: its size changes
Write ==
    /\ NoCallRunning
    /\ in_input
    /\ \E s \in 0..MaxSize : s # size /\ size' = s
    /\ UNCHANGED <<started, queue, emitted, wpc, prev_size, polls, seen, outcome,
                   processing, wcalls>>
    /\ UNCHANGED <<dhlVars, fsVars, callVars>>

\* the input file is taken away from outside the service, at any moment:
\* nothing keeps it in place while process_file reads and moves it
Vanish ==
    /\ in_input
    /\ in_input' = FALSE
    /\ UNCHANGED <<now, lock, done_dir, error_dir, label_files, content>>
    /\ UNCHANGED watchVars
    /\ UNCHANGED <<dhlVars, callVars>>

\* something else appears in the watched directory
OtherCreated ==
    /\ NoCallRunning
    /\ started = Live
    /\ emitted < MaxEvents
    /\ \E event \in OtherEvents : Emit(event)
    /\ UNCHANGED <<size, started, wpc, prev_size, polls, seen, outcome, processing, wcalls>>
    /\ UNCHANGED <<dhlVars, fsVars, callVars>>

\* the watcher calls orchestrator.process_file(filepath): a new call, on the
\* DHL client the orchestrator has had since it was built
Invoke(c, by, checked) ==
    /\ pc[c] \in {"idle", "returned"}
    /\ pc' = [pc EXCEPT ![c] = "acquire_create"]
    /\ ret' = [ret EXCEPT ![c] = "none"]
    /\ all_ok' = [all_ok EXCEPT ![c] = TRUE]
    /\ idx' = [idx EXCEPT ![c] = 1]
    /\ exc' = [exc EXCEPT ![c] = ""]
    /\ events' = [events EXCEPT ![c] = << >>]
    /\ attempts' = [attempts EXCEPT ![c] = << >>]
    /\ requests' = [requests EXCEPT ![c] = 0]
    /\ held' = [held EXCEPT ![c] = FALSE]
    /\ via' = [via EXCEPT ![c] = "none"]
    /\ parsed' = [parsed EXCEPT ![c] = FALSE]
    /\ handled' = [handled EXCEPT ![c] = << >>]
    /\ wcalls' = Append(wcalls, [by |-> by, checked |-> checked])
    /\ UNCHANGED <<orch_cache, on_event, orch, work>>

\* FolderWatcher.process_existing_files, up to its process_file call: glob,
\* return when nothing is there. It runs whether stop() was called or not
ProcessExistingFiles ==
    /\ started.phase = "startup"
    /\ IF in_input
       THEN /\ Invoke(1, "sweep", "none")
            /\ started' = [started EXCEPT !.phase = "sweep"]
       ELSE /\ started' = [started EXCEPT !.phase = "swept"]
            /\ UNCHANGED <<callVars, wcalls>>
    /\ UNCHANGED <<size, queue, emitted, wpc, prev_size, polls, seen, outcome, processing>>
    /\ UNCHANGED <<dhlVars, fsVars>>

\* FolderWatcher.start, called when process_existing_files has returned:
\* at once when it found nothing, else after process_file returned or raised
\* (the exception is logged). What is created in between is there when the
\* observer starts and gets no event. An observer that was stopped before
\* runs no dispatch loop
Start ==
    /\ \/ started.phase = "swept"
       \/ started.phase = "sweep" /\ pc[1] = "returned"
    /\ started' = [started EXCEPT !.phase = "live"]
    /\ UNCHANGED <<size, queue, emitted, wpc, prev_size, polls, seen, outcome, processing,
                   wcalls>>
    /\ UNCHANGED <<dhlVars, fsVars, callVars>>

\* FolderWatcher.stop: observer.stop() and observer.join(timeout=10), from
\* the thread that ends the service, whatever the service's thread is at.
\* The observer queues and delivers no event any more; the startup sweep and
\* an on_created that is running go on to their end
Stop ==
    /\ started' = [started EXCEPT !.stopped = TRUE]
    /\ UNCHANGED <<size, queue, emitted, wpc, prev_size, polls, seen, outcome, processing,
                   wcalls>>
    /\ UNCHANGED <<dhlVars, fsVars, callVars>>

\* XMLFileHandler.on_created up to the test of the in-progress set: the
\* observer's thread, back from the previous on_created, takes the next
\* queued event into the handler
OnCreated(t) ==
    /\ started = Live
    /\ wpc[t] = "idle"
    /\ queue # << >>
    /\ queue' = Tail(queue)
    /\ LET event == Head(queue)
       IN  IF \/ event.is_directory
              \/ event.suffix # ".xml"
              \/ FileName \in processing
           THEN UNCHANGED wpc
           ELSE wpc' = [wpc EXCEPT ![t] = "add"]
    /\ UNCHANGED <<size, started, emitted, prev_size, polls, seen, outcome, processing,
                   wcalls>>
    /\ UNCHANGED <<dhlVars, fsVars, callVars>>

\* on_created: self._processing.add(filepath.name), then the entry into
\* _wait_for_stability
AddProcessing(t) ==
    /\ wpc[t] = "add"
    /\ processing' = processing \cup {FileName}
    /\ prev_size' = [prev_size EXCEPT ![t] = -1]
    /\ polls' = [polls EXCEPT ![t] = 0]
    /\ seen' = [seen EXCEPT ![t] = <<-1, -1>>]
    /\ outcome' = [outcome EXCEPT ![t] = "none"]
    /\ wpc' = [wpc EXCEPT ![t] = "poll"]
    /\ UNCHANGED <<size, started, queue, emitted, wcalls>>
    /\ UNCHANGED <<dhlVars, fsVars, callVars>>

\* a handler that discards the name after the try statement, where only a
\* normal end of process_file gets
DiscardUnlessRaised(set, name, error) == IF error = "" THEN set \ {name} ELSE set

\* on_created, the finally block: self._processing.discard(filepath.name),
\* whether the try block ended normally (error "") or with an exception
Discard(set, name, error) == set \ {name}

\* on_created: except FileNotFoundError, then except Exception
Caught(error) ==
    IF error = "FileNotFoundError" THEN TRUE
    ELSE \* every other exception of the try block is an Exception
         TRUE

\* where on_created ends: it returns to the observer, or the exception
\* leaves it
AfterHandler(error) == IF error = "" \/ Caught(error) THEN "idle" ELSE "escaped"

\* a check that takes an unchanged size for stable, empty or not
StableWhenUnchanged(current_size, previous) == current_size = previous

\* _wait_for_stability: current_size == prev_size and current_size > 0
Stable(current_size, previous) == current_size = previous /\ current_size > 0

\* a loop that gives the file one more poll than the budget
BudgetSpentLate(n) == n > MaxPolls

\* _wait_for_stability: the loop has run range(10) out
BudgetSpent(n) == n = MaxPolls

\* one turn of the loop of _wait_for_stability: sleep, exists, stat, compare;
\* with the handlers of on_created when the check raises
WaitForStability(t) ==
    /\ wpc[t] = "poll"
    /\ polls' = [polls EXCEPT ![t] = @ + 1]
    /\ IF ~in_input
       THEN \* FileNotFoundError, caught by on_created
            /\ outcome' = [outcome EXCEPT ![t] = "vanished"]
            /\ processing' = Discard(processing, FileName, "FileNotFoundError")
            /\ wpc' = [wpc EXCEPT ![t] = AfterHandler("FileNotFoundError")]
            /\ UNCHANGED <<prev_size, seen>>
       ELSE /\ seen' = [seen EXCEPT ![t] = <<seen[t][2], size>>]
            /\ IF Stable(size, prev_size[t])
               THEN /\ outcome' = [outcome EXCEPT ![t] = "stable"]
                    /\ wpc' = [wpc EXCEPT ![t] = "process"]
                    /\ UNCHANGED <<prev_size, processing>>
               ELSE /\ prev_size' = [prev_size EXCEPT ![t] = size]
                    /\ IF BudgetSpent(polls[t] + 1)
                       THEN \* TimeoutError, caught by on_created
                            /\ outcome' = [outcome EXCEPT ![t] = "timeout"]
                            /\ processing' = Discard(processing, FileName, "TimeoutError")
                            /\ wpc' = [wpc EXCEPT ![t] = AfterHandler("TimeoutError")]
                       ELSE UNCHANGED <<outcome, processing, wpc>>
    /\ UNCHANGED <<size, started, queue, emitted, wcalls>>
    /\ UNCHANGED <<dhlVars, fsVars, callVars>>

\* on_created: self.orchestrator.process_file(filepath)
HandlerProcessFile(t) ==
    /\ wpc[t] = "process"
    /\ Invoke(t, "event", outcome[t])
    /\ wpc' = [wpc EXCEPT ![t] = "in_process"]
    /\ UNCHANGED <<size, started, queue, emitted, prev_size, polls, seen, outcome, processing>>
    /\ UNCHANGED <<dhlVars, fsVars>>

\* on_created after process_file returned or raised: the exception is logged,
\* the finally block discards the name
HandlerDone(t) ==
    /\ wpc[t] = "in_process"
    /\ pc[t] = "returned"
    /\ LET error == IF ret[t] = "raised" THEN exc[t] ELSE ""
       IN  /\ processing' = Discard(processing, FileName, error)
           /\ wpc' = [wpc EXCEPT ![t] = AfterHandler(error)]
    /\ UNCHANGED <<size, started, queue, emitted, prev_size, polls, seen, outcome, wcalls>>
    /\ UNCHANGED <<dhlVars, fsVars, callVars>>

\* the service beside the exporter, on a file no other service works on: the
\* startup sweep, then the observer's thread handling the creation events one
\* after the other, process_file running inside either
NextWatch ==
    \/ Create
    \/ Write
    \/ Vanish
    \/ OtherCreated
    \/ ProcessExistingFiles
    \/ Start
    \/ Stop
    \/ OnCreated(1)
    \/ AddProcessing(1)
    \/ WaitForStability(1)
    \/ HandlerProcessFile(1)
    \/ HandlerDone(1)
    \/ AcquireCreate(1)
    \/ Parse(1)
    \/ ProcessShipment(1, WatchEnvs)
    \/ Finalize(1)
    \/ HandleException(1)
    \/ Release(1)

SpecWatch == InitWatch /\ [][NextWatch]_vars

\* the other service that put the marker beside the file removes it
ForeignRelease ==
    /\ lock.exists
    /\ lock.owner = 0
    /\ lock' = NoLock
    /\ UNCHANGED <<now, in_input, done_dir, error_dir, label_files, content>>
    /\ UNCHANGED <<dhlVars, callVars, watchVars>>

\* a complete input file with the live marker of another service beside it;
\* this service is starting, or is started and has the file's creation event
InitRetry ==
    /\ InitDHL
    /\ InitServiceCalls
    /\ now = 0
    /\ lock = Marker(0, 0)
    /\ in_input = TRUE
    /\ done_dir = {}
    /\ error_dir = {}
    /\ label_files = << >>
    /\ content \in WatchFiles
    /\ size \in 1..MaxSize
    /\ started \in {Startup, Live}
    /\ queue = (IF started = Live THEN <<XmlEvent>> ELSE << >>)
    /\ emitted = Len(queue)
    /\ HandlerAtRest
    /\ processing = {}
    /\ wcalls = << >>

\* the steps of the service: the sweep, the event handler, process_file
ServiceStep ==
    \/ ProcessExistingFiles
    \/ Start
    \/ OnCreated(1)
    \/ AddProcessing(1)
    \/ WaitForStability(1)
    \/ HandlerProcessFile(1)
    \/ HandlerDone(1)
    \/ AcquireCreate(1)
    \/ AcquireExists(1)
    \/ AcquireStat(1)
    \/ AcquireUnlink(1)
    \/ AcquireRecreate(1)
    \/ Parse(1)
    \/ ProcessShipment(1, WatchEnvs)
    \/ Finalize(1)
    \/ HandleException(1)
    \/ Release(1)

NextRetry ==
    \/ Tick
    \/ ForeignRelease
    \/ Stop
    \/ ServiceStep

\* the service keeps running: a step it can take is taken
SpecRetry == InitRetry /\ [][NextRetry]_vars /\ WF_vars(ServiceStep)

(***************************************************************************)
(* Text: strings as sequences of characters                                *)
(***************************************************************************)

Letters == {"A", "D", "E", "H", "I", "K", "L", "N", "O", "P", "S", "U", "V", "Y",
            "d", "e", "h", "k", "l", "n", "p", "s", "y"}

Whitespace == {" "}

\* str.upper, on the letters above
UpperChar(ch) ==
    CASE ch = "d" -> "D" [] ch = "e" -> "E" [] ch = "h" -> "H" [] ch = "k" -> "K"
      [] ch = "l" -> "L" [] ch = "n" -> "N" [] ch = "p" -> "P" [] ch = "s" -> "S"
      [] ch = "y" -> "Y" [] OTHER -> ch

Upper(s) == [i \in DOMAIN s |-> UpperChar(s[i])]

RECURSIVE LStrip(_)
LStrip(s) == IF s # << >> /\ Head(s) \in Whitespace THEN LStrip(Tail(s)) ELSE s

RECURSIVE RStrip(_)
RStrip(s) ==
    IF s # << >> /\ s[Len(s)] \in Whitespace THEN RStrip(SubSeq(s, 1, Len(s) - 1)) ELSE s

\* str.strip
Strip(s) == RStrip(LStrip(s))

\* str.isalpha
IsAlpha(s) == s # << >> /\ \A i \in DOMAIN s : s[i] \in Letters

\* str.split(sep): the segments between the separators, at least one
RECURSIVE Split(_, _)
Split(s, sep) ==
    IF \A i \in DOMAIN s : s[i] # sep
    THEN <<s>>
    ELSE LET k == CHOOSE i \in DOMAIN s : s[i] = sep /\ \A j \in 1..(i - 1) : s[j] # sep
         IN  <<SubSeq(s, 1, k - 1)>> \o Split(SubSeq(s, k + 1, Len(s)), sep)

(***************************************************************************)
(* The parser: src/src/parsers/xml_parser.py                               *)
(***************************************************************************)

\* CarrierType: the value of each member
CarrierTypes == {[name |-> "DHL", value |-> <<"D", "H", "L">>],
                 [name |-> "POSTNORD", value |-> <<"P", "N">>]}

\* a carrier token taken as it is written
CarrierTokenAsWritten(segment) == Strip(segment)

\* _parse_srvid: carrier_str = parts[0].strip().upper()
CarrierToken(segment) == Upper(Strip(segment))

\* _parse_srvid
ParseSrvid(srvid) ==
    LET parts == Split(srvid, ":")
    IN  IF Len(parts) < 2
        THEN ErrWith("ValueError", "Ogiltig srvid")
        ELSE LET carrier_str == CarrierToken(parts[1])
                 product_code == Strip(parts[2])
                 addon == IF Len(parts) > 2 THEN Strip(parts[3]) ELSE << >>
             IN  IF \E ct \in CarrierTypes : ct.value = carrier_str
                 THEN Ok([carrier |-> (CHOOSE ct \in CarrierTypes :
                                         ct.value = carrier_str).name,
                          product_code |-> product_code,
                          addon |-> addon])
                 ELSE ErrWith("ValueError", "Okand transportor")

\* _parse_service: the booking element, bvals its values
ParseBooking(bvals) ==
    [pickup_booking |-> Upper(Get(bvals, "pickupbooking", << >>)) = <<"Y", "E", "S">>,
     pickup_date |-> Get(bvals, "pickupdate", "")]

\* weights and volumes are counted in thousandths
DefaultWeight == 1000
MinVolume == 1

\* _parse_container, vals the values of the element
ParseContainer(vals) ==
    [copies |-> Get(vals, "copies", 1),
     package_code |-> Get(vals, "packagecode", "PC"),
     weight |-> Get(vals, "weight", 0),
     volume |-> Get(vals, "volume", 0)]

(***************************************************************************)
(* The creation payload: src/src/carriers/dhl.py                           *)
(***************************************************************************)

\* a prefix test that does not look at the two characters before the hyphen
HasCountryPrefixAnyChars(cleaned) == Len(cleaned) > 3 /\ cleaned[3] = "-"

\* clean_postal_code: len(cleaned) > 3 and cleaned[2] == "-" and
\* cleaned[:2].isalpha()
HasCountryPrefix(cleaned) ==
    Len(cleaned) > 3 /\ cleaned[3] = "-" /\ IsAlpha(SubSeq(cleaned, 1, 2))

\* clean_postal_code
CleanPostalCode(zipcode) ==
    LET cleaned == Strip(zipcode)
    IN  IF HasCountryPrefix(cleaned) THEN SubSeq(cleaned, 4, Len(cleaned)) ELSE cleaned

\* date.today().isoformat()
Today == "today"

\* PACKAGE_TYPE_DEFAULTS
PackageTypeDefaults == [p \in {<<"2", "1", "0">>} |-> "701"]

\* a resolution that lets the product's default win over the container's code
PackageTypeDefaultFirst(containers, product_code) ==
    IF product_code \in DOMAIN PackageTypeDefaults
    THEN PackageTypeDefaults[product_code]
    ELSE IF containers # << >> /\ containers[1].package_code # ""
    THEN containers[1].package_code
    ELSE "PKT"

\* _build_transport_instruction: pkg_type
PackageType(containers, product_code) ==
    IF containers # << >> /\ containers[1].package_code # ""
    THEN containers[1].package_code
    ELSE Get(PackageTypeDefaults, product_code, "PKT")

\* _build_transport_instruction: shipping_date
ShippingDate(booking) ==
    IF Truthy(booking) /\ booking.pickup_date # ""
    THEN booking.pickup_date
    ELSE Today

\* _build_transport_instruction: weight
Weight(containers) ==
    IF containers # << >> THEN containers[1].weight ELSE DefaultWeight

\* _build_transport_instruction: volume
Volume(containers) ==
    LET volume == IF containers # << >> THEN containers[1].volume ELSE MinVolume
    IN  IF volume <= 0 THEN MinVolume ELSE volume

\* Shipment.receiver: None
NoReceiver == << >>

\* _build_transport_instruction: the payload, without the names, streets and
\* contact data of the parties, the dimensions and the additional services;
\* recv.zipcode raises AttributeError on a shipment without receiver
BuildTransportInstruction(shipment) ==
    LET containers == shipment.containers
        product_code == shipment.service.product_code
        copies == IF containers # << >> THEN containers[1].copies ELSE 1
    IN  IF ~Truthy(shipment.receiver) THEN Err("AttributeError")
        ELSE
        [id |-> "",
         productCode |-> product_code,
         shippingDate |-> ShippingDate(shipment.service.booking),
         totalNumberOfPieces |-> copies,
         totalWeight |-> Weight(containers),
         totalVolume |-> Volume(containers),
         payerCode |-> [code |-> "1", location |-> ""],
         consigneePostalCode |-> CleanPostalCode(shipment.receiver.zipcode),
         pieces |-> <<[id |-> <<"">>,
                      packageType |-> PackageType(containers, product_code),
                      numberOfPieces |-> copies,
                      weight |-> Weight(containers),
                      volume |-> Volume(containers)]>>]

(***************************************************************************)
(* The parser and the payload builder applied to bounded inputs            *)
(***************************************************************************)

\* segments of a service code
MaxSegments == 3

SegmentTexts ==
    {<<"D", "H", "L">>, <<"d", "h", "l">>, <<" ", "D", "h", "L", " ">>,
     <<"P", "N">>, <<"p", "n">>, <<"U", "P", "S">>, << >>, <<" ">>,
     <<"1", "0", "4">>, <<" ", "1", "0", "4", " ">>, <<"A", "V", "I", "S">>}

RECURSIVE Join(_, _)
Join(parts, sep) ==
    IF Len(parts) = 1 THEN parts[1] ELSE parts[1] \o <<sep>> \o Join(Tail(parts), sep)

ServiceCodes ==
    UNION { {Join(p, ":") : p \in [1..n -> SegmentTexts]} : n \in 1..MaxSegments }

\* characters of a postal code
MaxZipLen == 5

ZipChars == {"D", "k", "-", "5", " "}

PostalCodes == UNION { [1..n -> ZipChars] : n \in 0..MaxZipLen }

\* a dict with the key k when the option S holds a value, empty otherwise
Val(k, S) == [x \in (IF S = {} THEN {} ELSE {k}) |-> CHOOSE v \in S : TRUE]

\* the values a container element may carry: each one given or missing
ContainerVals ==
    { Val("weight", w) @@ Val("volume", v) @@ Val("packagecode", p) @@ Val("copies", c) :
        w \in {{}, {0}, {2500}},
        v \in {{}, {-1000}, {12}},
        p \in {{}, {""}, {"702"}},
        c \in {{2}} }

\* the values a booking element may carry
BookingVals ==
    { Val("pickupbooking", b) @@ Val("pickupdate", d) :
        b \in {{}, {<<"Y", "E", "S">>}, {<<"y", "e", "s">>}, {<<"N", "O">>}},
        d \in {{""}, {"2026-02-19"}} }

\* container elements of a shipment
MaxContainers == 1

\* service elements of a shipment element: none, or one with its service
\* code and the booking element if there is one
XmlServices ==
    {[present |-> FALSE]} \cup
    {[present |-> TRUE, srvid |-> srvid, booking |-> booking] :
       srvid \in {<<"D", "H", "L", ":", "2", "1", "0">>,
                  <<"D", "H", "L", ":", "1", "0", "2">>,
                  <<"U", "P", "S", ":", "1", "0", "2">>},
       booking \in {[present |-> FALSE]} \cup
                   {[present |-> TRUE, vals |-> b] : b \in BookingVals}}

\* the receiver element that goes with a shipment element, its own or the
\* root's: none, or one with its postal code
XmlReceivers ==
    {[present |-> FALSE],
     [present |-> TRUE, zipcode |-> <<"D", "K", "-", "5", "2", "2", "0">>]}

\* shipment elements: the service element, the container elements, the
\* receiver
XmlShipments ==
    [service : XmlServices,
     containers : UNION { [1..n -> ContainerVals] : n \in 0..MaxContainers },
     receiver : XmlReceivers]

\* ServiceInfo(): the defaults of the dataclass
DefaultServiceInfo ==
    [carrier |-> "DHL", product_code |-> << >>, addon |-> << >>, booking |-> NoBooking]

\* _parse_service
ParseService(service) ==
    IF ~service.present
    THEN Ok(DefaultServiceInfo)
    ELSE LET srv == ParseSrvid(service.srvid)
         IN  IF ~srv.ok THEN srv
             ELSE Ok([carrier |-> srv.val.carrier,
                      product_code |-> srv.val.product_code,
                      addon |-> srv.val.addon,
                      booking |-> IF service.booking.present
                                  THEN ParseBooking(service.booking.vals)
                                  ELSE NoBooking])

\* _parse_shipment, with the receiver parse_file passes to it
ParseShipment(elem) ==
    LET service == ParseService(elem.service)
    IN  IF ~service.ok THEN service
        ELSE Ok([service |-> service.val,
                 containers |-> [i \in DOMAIN elem.containers |->
                                   ParseContainer(elem.containers[i])],
                 receiver |-> IF elem.receiver.present
                              THEN [zipcode |-> elem.receiver.zipcode]
                              ELSE NoReceiver])

\* what the functions are applied to
FunctionInputs ==
    {[op |-> "input", fn |-> "parse_srvid", arg |-> c] : c \in ServiceCodes}
    \cup {[op |-> "input", fn |-> "clean_postal_code", arg |-> z] : z \in PostalCodes}
    \cup {[op |-> "input", fn |-> "build_transport_instruction", arg |-> x] :
            x \in XmlShipments}

InitFunctions ==
    /\ ti_cache = << >>
    /\ sent = << >>
    /\ ops = 0
    /\ last \in FunctionInputs
    /\ InitCalls
    /\ WatcherOff
    /\ now = 0
    /\ lock = NoLock
    /\ in_input = TRUE
    /\ done_dir = {}
    /\ error_dir = {}
    /\ label_files = << >>
    /\ content = BadXml

DoParseSrvid ==
    /\ last.op = "input"
    /\ last.fn = "parse_srvid"
    /\ last' = [op |-> "parse_srvid", arg |-> last.arg, res |-> ParseSrvid(last.arg)]
    /\ ops' = ops + 1
    /\ UNCHANGED <<ti_cache, sent>>
    /\ UNCHANGED <<fsVars, callVars, watchVars>>

DoCleanPostalCode ==
    /\ last.op = "input"
    /\ last.fn = "clean_postal_code"
    /\ last' = [op |-> "clean_postal_code", arg |-> last.arg,
                res |-> CleanPostalCode(last.arg)]
    /\ ops' = ops + 1
    /\ UNCHANGED <<ti_cache, sent>>
    /\ UNCHANGED <<fsVars, callVars, watchVars>>

\* _parse_shipment on the element
DoParseShipment ==
    /\ last.op = "input"
    /\ last.fn = "build_transport_instruction"
    /\ last' = [op |-> "parse_shipment", arg |-> last.arg, res |-> ParseShipment(last.arg)]
    /\ ops' = ops + 1
    /\ UNCHANGED <<ti_cache, sent>>
    /\ UNCHANGED <<fsVars, callVars, watchVars>>

\* the element is parsed and, unless that raises, the payload for the
\* shipment is built, or building it raises
DoBuildTransportInstruction ==
    /\ last.op = "input"
    /\ last.fn = "build_transport_instruction"
    /\ ParseShipment(last.arg).ok
    /\ LET shipment == ParseShipment(last.arg).val
       IN  last' = [op |-> "build_transport_instruction", arg |-> last.arg,
                    shipment |-> shipment,
                    res |-> BuildTransportInstruction(shipment)]
    /\ ops' = ops + 1
    /\ UNCHANGED <<ti_cache, sent>>
    /\ UNCHANGED <<fsVars, callVars, watchVars>>

NextFunctions ==
    \/ DoParseSrvid
    \/ DoCleanPostalCode
    \/ DoParseShipment
    \/ DoBuildTransportInstruction

SpecFunctions == InitFunctions /\ [][NextFunctions]_vars

(***************************************************************************)
(* The HTTP sessions of the carrier clients: _create_session               *)
(***************************************************************************)

\* DHLClient._create_session: status_forcelist
DHLForcelist == {429, 502, 503, 504}

\* PostNordClient._create_session: status_forcelist
PostNordForcelist == {429, 500, 502, 503, 504}

StatusForcelist(client) == IF client = "DHL" THEN DHLForcelist ELSE PostNordForcelist

\* config.get("retry_attempts", 3): Retry(total=...)
DefaultRetryAttempts == 3

\* retry_attempts a configuration may give
MaxRetryAttempts == 3

\* status codes a carrier answers with
HttpStatuses == {200, 400, 429, 500, 502, 503, 504}

\* a POST or GET sent through the session of a client; statuses are the
\* answers to the attempts made so far
InitHttp ==
    /\ ti_cache = << >>
    /\ sent = << >>
    /\ ops = 0
    /\ last \in {[op |-> "request", client |-> client, total |-> total,
                  statuses |-> << >>, outcome |-> "sending"] :
                   client \in {"DHL", "PN"},
                   total \in (0..MaxRetryAttempts) \cup {DefaultRetryAttempts}}
    /\ InitCalls
    /\ WatcherOff
    /\ now = 0
    /\ lock = NoLock
    /\ in_input = TRUE
    /\ done_dir = {}
    /\ error_dir = {}
    /\ label_files = << >>
    /\ content = BadXml

\* the adapter sends the request and reads the status: a status of the
\* forcelist is retried while retries are left (Retry.total counts the
\* retries after the first attempt); any other answer, and the answer to the
\* last attempt, goes to the caller
HttpAttempt ==
    /\ last.op = "request"
    /\ last.outcome = "sending"
    /\ \E status \in HttpStatuses :
         LET statuses == Append(last.statuses, status)
             retry == /\ status \in StatusForcelist(last.client)
                      /\ Len(statuses) <= last.total
         IN  last' = [last EXCEPT !.statuses = statuses,
                                  !.outcome = IF retry THEN "sending"
                                              ELSE IF status = 200 THEN "ok"
                                              ELSE "error"]
    /\ ops' = ops + 1
    /\ UNCHANGED <<ti_cache, sent>>
    /\ UNCHANGED <<fsVars, callVars, watchVars>>

NextHttp == HttpAttempt

SpecHttp == InitHttp /\ [][NextHttp]_vars

\* shipments per input file when disk and printer may raise
MaxOutcomeShipments == 2

OutcomeFiles ==
    UNION { {GoodXml(k) : k \in [1..n -> ShipmentKinds]} : n \in 0..MaxOutcomeShipments }

\* the writes to the label cache: both go through, or one raises in one of
\* the ways a write can fail
DiskOutcomes ==
    {[disk |-> "ok", write_failure |-> NoWriteFailure]} \cup
    [disk : {"label_fails", "list_fails"}, write_failure : WriteFailures]

\* _process_single gets to the write that env.disk lets fail: the label is
\* written when the shipment is created and its label retrieved, the shipment
\* list when it was retrieved too
WriteReached(env, disk) ==
    \/ disk = "ok"
    \/ /\ env.create.status = "ok"
       /\ env.r1.status = "ok"
       /\ disk = "list_fails" => env.r2.status = "ok"

\* the carrier's answers with a way for the disk to behave, a failing write
\* only where the answers let _process_single get to it
DiskEnvs(envs) ==
    {p \in envs \X DiskOutcomes : WriteReached(p[1], p[2].disk)}

\* the answers of the collaborators, with the writes to the label cache and
\* print_label raising or not (a print_label that raises returns nothing)
OutcomeEnvs ==
    { [print_label_raises |-> FALSE] @@ p[2] @@ p[1] : p \in DiskEnvs(CarrierEnvs) }
    \cup { [print_label_raises |-> TRUE] @@ p[2] @@ p[1] :
             p \in DiskEnvs({e \in CarrierEnvs : ~e.print_label}) }

InitOutcomes ==
    /\ InitDHL
    /\ InitCalls
    /\ WatcherOff
    /\ now = 0
    /\ lock = NoLock
    /\ in_input = TRUE
    /\ done_dir = {}
    /\ error_dir = {}
    /\ label_files = << >>
    /\ content \in OutcomeFiles

\* one process_file call on a file that parses, whatever the carrier, the
\* disk, the printer and the e-mail sender do
NextOutcomes ==
    \/ Call(1)
    \/ AcquireCreate(1)
    \/ Parse(1)
    \/ ProcessShipment(1, OutcomeEnvs)
    \/ Finalize(1)
    \/ Release(1)

SpecOutcomes == InitOutcomes /\ [][NextOutcomes]_vars

(***************************************************************************)
(* process_file with a callback that raises                               *)
(***************************************************************************)

\* shipments per input file when the callback is followed
MaxNotifyShipments == 2

NotifyFiles ==
    {BadXml} \cup
    UNION { {GoodXml(k) : k \in [1..n -> ShipmentKinds]} : n \in 0..MaxNotifyShipments }

\* what the orchestrator may have been built with: no callback, or one that
\* raises on some of the event types
Callbacks == {NoCallback} \cup {Callback(raises) : raises \in SUBSET EventTypes}

InitNotify ==
    /\ InitDHL
    /\ \E cb \in Callbacks : InitCallsWith([c \in Callers |-> cb])
    /\ WatcherOff
    /\ now = 0
    /\ lock = NoLock
    /\ in_input = TRUE
    /\ done_dir = {}
    /\ error_dir = {}
    /\ label_files = << >>
    /\ content \in NotifyFiles

\* one process_file call; the carrier accepts or refuses each creation
NextNotify ==
    \/ Call(1)
    \/ AcquireCreate(1)
    \/ Parse(1)
    \/ ProcessShipment(1, RaceEnvs)
    \/ Finalize(1)
    \/ HandleException(1)
    \/ Release(1)

SpecNotify == InitNotify /\ [][NextNotify]_vars

(***************************************************************************)
(* Properties                                                              *)
(***************************************************************************)

Acquired(c) == via[c] # "none"

HasFile(dir) == \E e \in dir : e.suffix = ".xml" /\ e.name = FileName

ShipmentEvents(c) ==
    SelectSeq(events[c], LAMBDA e : e.type \in {"shipment_ok", "shipment_error"})

FileEvents(c) ==
    SelectSeq(events[c], LAMBDA e : e.type \in {"file_done", "file_error"})

OrderNumbers == [i \in DOMAIN content.shipments |-> content.shipments[i].order_no]

\* shipments the call has passed to _process_single and is still handling
Unfinished(c) == IF work[c] # << >> THEN 1 ELSE 0

\* C1: at most one process_file call at a time is between its successful lock
\* acquisition and its lock release, under every interleaving of the calls on
\* the same file, stale reclaims included.
C1_MutualExclusion ==
    \A a, b \in Callers : a # b => ~(held[a] /\ held[b])

\* C2: after a successful parse every shipment of the file is passed to
\* _process_single exactly once, in document order and one at a time (the
\* one being handled is the only one without its event); a failing shipment gives a
\* shipment_error event and the later ones are still attempted, each giving
\* its own shipment_ok or shipment_error; all_ok is false exactly when some
\* shipment failed.
C2_EveryShipmentAttempted ==
    \A c \in Callers :
      parsed[c] =>
        LET n == IF pc[c] = "shipments" THEN idx[c] - 1 ELSE Len(content.shipments)
        IN  /\ attempts[c] = SubSeq(OrderNumbers, 1, n + Unfinished(c))
            /\ Len(ShipmentEvents(c)) = n
            /\ \A i \in 1..n :
                 /\ events[c][i].type \in {"shipment_ok", "shipment_error"}
                 /\ events[c][i].order_no = OrderNumbers[i]
            /\ pc[c] \in {"shipments", "finalize"} =>
                 (all_ok[c] <=> \A i \in 1..n : events[c][i].type = "shipment_ok")

\* a call returned after shipment 1 failed and shipment 2 succeeded
C2_Witness ==
    /\ pc[1] = "returned"
    /\ Len(events[1]) = 3
    /\ events[1][1].type = "shipment_error"
    /\ events[1][2].type = "shipment_ok"

\* C3: after a successful parse the returned call has finalized the file in
\* exactly one way: some shipment failed, and the file is in error_dir under
\* its timestamped name beside a .error.txt, file_error was emitted and the
\* call returned False; or none failed, and the file is in done_dir under its
\* timestamped name, file_done was emitted and the call returned True.
C3_FinalizedOneWay ==
    \A c \in Callers :
      (pc[c] = "returned" /\ parsed[c]) =>
        LET failed == \E i \in DOMAIN events[c] : events[c][i].type = "shipment_error"
        IN  /\ Len(FileEvents(c)) = 1
            /\ events[c][Len(events[c])] = FileEvents(c)[1]
            /\ ~in_input
            /\ IF failed
               THEN /\ FileEvents(c)[1] = FileError(PartialFailure)
                    /\ ret[c] = "False"
                    /\ done_dir = {}
                    /\ \E ts \in 0..MaxNow :
                         error_dir = {Archived(ts, FileName),
                                      ErrorTxt(ts, FileName, PartialFailure)}
               ELSE /\ FileEvents(c)[1] = FileDone
                    /\ ret[c] = "True"
                    /\ error_dir = {}
                    /\ \E ts \in 0..MaxNow : done_dir = {Archived(ts, FileName)}

\* a call returned False with one shipment done and one failed
C3_Witness ==
    /\ pc[1] = "returned"
    /\ parsed[1]
    /\ ret[1] = "False"
    /\ \E i, j \in DOMAIN events[1] :
         events[1][i].type = "shipment_ok" /\ events[1][j].type = "shipment_error"

\* C4: the step by which a call that acquired the lock returns or raises
\* leaves no lock marker, whatever path the call took.
C4_ReleasedOnEveryPath ==
    [][\A c \in Callers :
         (Acquired(c) /\ pc[c] # "returned" /\ pc'[c] = "returned") => ~lock'.exists]_vars

\* a call that acquired the lock raised out of its archiving and left no marker
C4_Witness ==
    \E c \in Callers :
      /\ pc[c] = "returned"
      /\ Acquired(c)
      /\ ret[c] = "raised"
      /\ ~lock.exists

\* a marker another run left, not older than the threshold
FreshForeignMarker ==
    /\ lock.exists
    /\ lock.owner = 0
    /\ now - lock.mtime <= StaleAge

\* C5: while the marker of another run exists and is not older than 300 s, no
\* step of process_file changes anything (the input file, the marker, the
\* archives, the label cache, the events, the carrier), and the call can only
\* return False.
C5_FreshLockSkips ==
    [][FreshForeignMarker =>
         /\ lock' = lock
         /\ in_input' = in_input
         /\ done_dir' = done_dir /\ error_dir' = error_dir
         /\ label_files' = label_files
         /\ events' = events /\ requests' = requests /\ attempts' = attempts
         /\ parsed' = parsed /\ via' = via
         /\ \A c \in Callers : pc'[c] = "returned" => ret'[c] = "False"]_vars

\* a call skipped the file beside the fresh marker of another run
C5_Witness ==
    /\ FreshForeignMarker
    /\ pc[1] = "returned"
    /\ ret[1] = "False"
    /\ in_input

\* C6: a call that finds the marker older than 300 s removes it, creates its
\* own fresh marker and goes on to parse; it then ends having archived the
\* file in done_dir or error_dir, with the matching file event and return
\* value, and with the marker removed.
C6_StaleLockReclaimed ==
    [][\A c \in Callers :
         LET step == pc'[c] # pc[c]
         IN  /\ (step /\ pc[c] = "acquire_stat" /\ lock.exists
                       /\ now - lock.mtime > StaleAge)
                   => pc'[c] = "acquire_unlink"
             /\ (step /\ pc[c] = "acquire_unlink")
                   => (~lock'.exists /\ pc'[c] = "acquire_recreate")
             /\ (step /\ pc[c] = "acquire_recreate")
                   => (lock' = Marker(now, c) /\ via'[c] = "reclaim" /\ pc'[c] = "parse")
             /\ (step /\ via[c] = "reclaim" /\ pc'[c] = "returned")
                   => /\ ~lock'.exists
                      /\ ~in_input'
                      /\ \/ /\ ret'[c] = "True"
                            /\ HasFile(done_dir') /\ ~HasFile(error_dir')
                            /\ events'[c][Len(events'[c])] = FileDone
                         \/ /\ ret'[c] = "False"
                            /\ HasFile(error_dir') /\ ~HasFile(done_dir')
                            /\ events'[c][Len(events'[c])].type = "file_error"]_vars

\* a call reclaimed a stale marker and processed the file successfully
C6_Witness ==
    /\ via[1] = "reclaim"
    /\ pc[1] = "returned"
    /\ ret[1] = "True"
    /\ HasFile(done_dir)

\* C7: when parsing fails the call handles no shipment and sends nothing to
\* the carrier, moves the file to error_dir beside a .error.txt carrying the
\* error text, emits exactly one event, file_error, releases the lock and
\* returns False.
C7_ParseFailureAborts ==
    \A c \in Callers :
      (pc[c] = "returned" /\ Acquired(c) /\ ~content.parses) =>
        /\ attempts[c] = << >>
        /\ requests[c] = 0
        /\ events[c] = <<FileError(content.error)>>
        /\ ~in_input
        /\ done_dir = {}
        /\ \E ts \in 0..MaxNow :
             error_dir = {Archived(ts, FileName), ErrorTxt(ts, FileName, content.error)}
        /\ label_files = << >>
        /\ ~lock.exists
        /\ ret[c] = "False"

\* a call returned after the parser rejected the file
C7_Witness ==
    /\ pc[1] = "returned"
    /\ Acquired(1)
    /\ ~content.parses
    /\ HasFile(error_dir)

\* C8: once a call that acquired the lock has ended, the input file is no
\* longer in the watched directory and is in exactly one of done_dir and
\* error_dir; at every moment the file exists in exactly one place.
C8_FileArchivedOnce ==
    /\ Cardinality({d \in {"input", "done", "error"} :
                      \/ d = "input" /\ in_input
                      \/ d = "done" /\ HasFile(done_dir)
                      \/ d = "error" /\ HasFile(error_dir)}) = 1
    /\ Cardinality({e \in done_dir \cup error_dir : e.suffix = ".xml"}) <= 1
    /\ \A c \in Callers :
         (pc[c] = "returned" /\ Acquired(c)) =>
           /\ ~in_input
           /\ HasFile(done_dir) # HasFile(error_dir)

\* two calls that both acquired the lock have ended; one archived the file
C8_Witness ==
    /\ \A c \in Callers : pc[c] = "returned" /\ Acquired(c)
    /\ HasFile(error_dir)

\* the print-documents request among the requests of the last operation
SentPrintDocuments ==
    \E i \in DOMAIN last.res.reqs : last.res.reqs[i].endpoint = "print_documents"
SentPrintById ==
    \E i \in DOMAIN last.res.reqs : last.res.reqs[i].endpoint = "print_by_id"

\* C9: get_label(id) calls print-documents first, with the cached creation
\* response, whenever the cache holds an entry for id, and returns its label
\* when that succeeds; it calls print-documents-by-id if and only if there is
\* no cache entry or the first tier failed; it fails if and only if every
\* tier it attempted failed.
C9_TwoTierLabel ==
    last.op = "get_label" =>
      LET cached == last.id \in DOMAIN last.before
          tier1 == PrintDocuments(last.before[last.id], last.r1)
          tier2 == PrintDocumentsById(last.id, last.r2)
      IN  /\ cached =>
               /\ last.res.reqs[1] = PrintDocumentsRequest(last.before[last.id], "label")
               /\ tier1.ok => (last.res.ok /\ last.res.val = tier1.val)
          /\ SentPrintById <=> (~cached \/ ~tier1.ok)
          /\ ~last.res.ok <=> /\ SentPrintDocuments => ~tier1.ok
                              /\ SentPrintById => ~tier2.ok

\* C10: after a successful create_shipment returning id X the cache holds under
\* X the unwrapped creation response (the transportInstruction object of a
\* wrapped response, else the whole body), and every print-documents request
\* get_label or get_all_documents sends for X carries as its shipment field
\* the object unwrapped from the last creation response that returned X.
C10_CachedResponseResent ==
    /\ (last.op = "create_shipment" /\ last.res.ok) =>
         /\ last.res.shipment_id \in DOMAIN ti_cache
         /\ ti_cache[last.res.shipment_id] =
              IF "transportInstruction" \in DOMAIN last.r1.body
              THEN last.r1.body.transportInstruction
              ELSE last.r1.body
    /\ last.op \in {"get_label", "get_all_documents"} =>
         \A i \in DOMAIN last.res.reqs :
           last.res.reqs[i].endpoint = "print_documents" =>
             /\ last.id \in DOMAIN sent
             /\ last.res.reqs[i].shipment = sent[last.id]

\* get_all_documents resent the transportInstruction of a wrapped creation
\* response in both of its print-documents requests
C10_Witness ==
    /\ last.op = "get_all_documents"
    /\ last.res.ok
    /\ Len(last.res.reqs) = 2
    /\ last.res.reqs[2].shipment = TIFull

\* C11: the response cache is populated once per successful creation and never
\* evicted: no operation removes a key; a create_shipment that fails leaves
\* the cache as it was; a create_shipment that succeeds sets the entry of the
\* identifier it returns and touches no other; get_label, get_all_documents
\* and request_pickup leave the cache as it was.
C11_CacheOnlyGrows ==
    [][/\ DOMAIN ti_cache \subseteq DOMAIN ti_cache'
       /\ (last'.op # "create_shipment" \/ ~last'.res.ok) => ti_cache' = ti_cache
       /\ (last'.op = "create_shipment" /\ last'.res.ok) =>
            /\ DOMAIN ti_cache' = DOMAIN ti_cache \cup {last'.res.shipment_id}
            /\ \A k \in DOMAIN ti_cache \ {last'.res.shipment_id} :
                 ti_cache'[k] = ti_cache[k]]_vars

\* a second creation under another identifier left the first entry in place
C11_Witness ==
    /\ last.op = "create_shipment"
    /\ last.res.ok
    /\ last.before # << >>
    /\ last.res.shipment_id \notin DOMAIN last.before
    /\ Cardinality(DOMAIN ti_cache) = 2

\* C12: get_all_documents(id) on a client whose cache has no entry for id fails
\* without sending any HTTP request and leaves the cache as it was.
C12_NoCacheNoRequest ==
    (last.op = "get_all_documents" /\ last.id \notin DOMAIN last.before) =>
      /\ ~last.res.ok
      /\ last.res.reqs = << >>
      /\ ti_cache = last.before

\* get_all_documents failed for an identifier another creation did not return
C12_Witness ==
    /\ last.op = "get_all_documents"
    /\ last.before # << >>
    /\ last.id \notin DOMAIN last.before
    /\ ~last.res.ok

\* the report list of a JSON response, empty when the body has none
ReportsOf(resp) == IF "reports" \in DOMAIN resp.body THEN resp.body.reports ELSE << >>

\* the shipment list response carries a ShipmentList report with content
HasShipmentList(resp) ==
    /\ resp.status = "ok"
    /\ IsJson(resp.ctype)
    /\ resp.decodes
    /\ \E i \in DOMAIN ReportsOf(resp) :
         ReportsOf(resp)[i].type = "ShipmentList" /\ ReportsOf(resp)[i].content # ""

\* C13: once get_all_documents has retrieved the label, no outcome of the
\* shipment list fetch makes it fail: it returns that label, with the decoded
\* content of the first ShipmentList report that has content, and with no
\* shipment list (None) on an HTTP error, a response that is not JSON, an
\* absent or empty report list or a list without such a report.
C13_ListFetchNeverRaises ==
    (/\ last.op = "get_all_documents"
     /\ Truthy(CacheGet(last.before, last.id))
     /\ PrintDocuments(last.before[last.id], last.r1).ok) =>
      /\ last.res.ok
      /\ last.res.label = PrintDocuments(last.before[last.id], last.r1).val
      /\ IF HasShipmentList(last.r2)
         THEN LET reports == ReportsOf(last.r2)
                  i == CHOOSE i \in DOMAIN reports :
                         /\ reports[i].type = "ShipmentList"
                         /\ reports[i].content # ""
                         /\ \A j \in 1..(i - 1) :
                              ~(/\ reports[j].type = "ShipmentList"
                                /\ reports[j].content # "")
              IN  last.res.shipment_list = B64Decode(reports[i].content)
         ELSE last.res.shipment_list = "None"

\* the label came back although the shipment list request got an HTTP error
C13_Witness ==
    /\ last.op = "get_all_documents"
    /\ last.r2.status = "http_error"
    /\ last.res.ok
    /\ last.res.label = "LBL"
    /\ last.res.shipment_list = "None"

\* a JSON print response whose body decodes
JsonResponse(resp) == resp.status = "ok" /\ IsJson(resp.ctype) /\ resp.decodes

\* a 200 JSON print response whose report list is empty or absent
NoReports(resp) == JsonResponse(resp) /\ ReportsOf(resp) = << >>

\* C14: from a JSON print response with a non-empty report list whose reports
\* all have content, label extraction returns the decoded content of the first
\* report of type "Label", wherever it stands in the list, and the decoded
\* content of the first report only when no report has that type.
C14_LabelReportPreferred ==
    (/\ last.op = "extract_label"
     /\ JsonResponse(last.r1)
     /\ ReportsOf(last.r1) # << >>
     /\ \A i \in DOMAIN ReportsOf(last.r1) : ReportsOf(last.r1)[i].content # "") =>
      LET reports == ReportsOf(last.r1)
          labels == {i \in DOMAIN reports : reports[i].type = "Label"}
          pick == IF labels = {} THEN 1
                  ELSE CHOOSE i \in labels : \A j \in labels : i <= j
      IN  /\ last.res.ok
          /\ last.res.val = B64Decode(reports[pick].content)

\* the label was taken from the second of three reports, the first of type Label
C14_Witness ==
    /\ last.op = "extract_label"
    /\ JsonResponse(last.r1)
    /\ Len(ReportsOf(last.r1)) = 3
    /\ ReportsOf(last.r1)[1].type # "Label"
    /\ ReportsOf(last.r1)[3].type = "Label"
    /\ last.res.ok
    /\ last.res.val = "LB2"

\* C15: for a 200 JSON print response whose report list is empty or absent,
\* label extraction raises, with at most the first 200 characters of the
\* response body in the error, and returns no bytes; get_all_documents fails
\* when its label request is answered so, and get_label fails when every tier
\* it attempts is answered so: neither returns an empty label.
C15_NoReportsRaises ==
    /\ (last.op = "extract_label" /\ NoReports(last.r1)) =>
         /\ ~last.res.ok
         /\ last.res.detail = Truncated(last.r1.text)
         /\ Len(last.res.detail) <= TextLimit
    /\ (/\ last.op = "get_all_documents"
        /\ Truthy(CacheGet(last.before, last.id))
        /\ NoReports(last.r1)) => ~last.res.ok
    /\ (/\ last.op = "get_label"
        /\ NoReports(last.r2)
        /\ Truthy(CacheGet(last.before, last.id)) => NoReports(last.r1)) => ~last.res.ok
    /\ (last.op \in {"extract_label", "get_label"} /\ last.res.ok) => last.res.val # ""
    /\ (last.op = "get_all_documents" /\ last.res.ok) => last.res.label # ""

\* extraction raised on a long body without a report list, keeping 200
\* characters of it
C15_Witness ==
    /\ last.op = "extract_label"
    /\ NoReports(last.r1)
    /\ Len(last.r1.text) > TextLimit
    /\ ~last.res.ok
    /\ Len(last.res.detail) = TextLimit

\* the shipment asks for a pickup: a booking with the flag set and a date
WantsPickup(shipment) ==
    /\ shipment.booking # NoBooking
    /\ shipment.booking.pickup_booking
    /\ shipment.booking.pickup_date # ""

\* the latest handling of call c, as the step leaves it, took the step
TookNext(h, step) == \E i \in DOMAIN h.steps : h.steps[i] = step

\* C16: the pipeline sends the pickup request only for a shipment whose booking
\* has the pickup flag and a non-empty date, and sends it for every such
\* shipment once its documents are retrieved; when the request fails the
\* shipment ends with shipment_error and no shipment_ok, all_ok is false from
\* then on, and the call ends with the file in error_dir and False returned.
C16_PickupWhenBooked ==
    [][\A c \in Callers :
         LET h == handled'[c]
         IN  /\ (h # << >> /\ h # handled[c]) =>
                  /\ TookNext(h, "pickup_request") => WantsPickup(h.shipment)
                  /\ (WantsPickup(h.shipment)
                        /\ TookNext(h, "print_documents:shipmentList"))
                       => TookNext(h, "pickup_request")
                  /\ h.pickup = "http_error" =>
                       /\ Len(events'[c]) = Len(events[c]) + 1
                       /\ events'[c][Len(events'[c])].type = "shipment_error"
                       /\ events'[c][Len(events'[c])].order_no = h.shipment.order_no
                       /\ ~TookNext(h, "shipment_ok")
                       /\ ~TookNext(h, "write_label")
                       /\ ~all_ok'[c]
             /\ ~all_ok[c] => ~all_ok'[c]
             /\ (pc'[c] = "returned" /\ pc[c] # "returned" /\ ~all_ok[c]) =>
                  /\ ret'[c] = "False"
                  /\ HasFile(error_dir') /\ ~HasFile(done_dir')
                  /\ events'[c][Len(events'[c])].type = "file_error"]_vars

\* the pickup request of a booked shipment failed after its label had been
\* retrieved; the call returned False with the file in error_dir
C16_Witness ==
    /\ pc[1] = "returned"
    /\ handled[1] # << >>
    /\ WantsPickup(handled[1].shipment)
    /\ handled[1].pickup = "http_error"
    /\ TookNext(handled[1], "print_documents:shipmentList")
    /\ ret[1] = "False"
    /\ HasFile(error_dir)

\* C17: when the printer returns failure for the label or for the shipment
\* list, the label written to the label cache before the print attempt is
\* still there, the steps after the print job run, the shipment ends with
\* shipment_ok and all_ok is not lowered: a call whose shipments all end so
\* returns True with the file in done_dir.
C17_PrintFailureNotFatal ==
    \A c \in Callers :
      (/\ handled[c] # << >>
       /\ "failed" \in {handled[c].print_label, handled[c].print_document}) =>
        LET h == handled[c]
            order == h.shipment.order_no
            steps == h.steps
            at(step) == CHOOSE i \in DOMAIN steps : steps[i] = step
            shipment_events == ShipmentEvents(c)
        IN  /\ LabelFile(order) \in DOMAIN label_files
            /\ label_files[LabelFile(order)] = "LBL"
            /\ TookNext(h, "write_label") /\ TookNext(h, "print_label")
            /\ at("write_label") < at("print_label")
            /\ h.print_document # "none" =>
                 /\ ListFile(order) \in DOMAIN label_files
                 /\ at("print_label") < at("print_document")
            /\ h.shipment.wants_email =>
                 (TookNext(h, "send_email") /\ at("print_label") < at("send_email"))
            /\ steps[Len(steps)] = "shipment_ok"
            /\ shipment_events[Len(shipment_events)].type = "shipment_ok"
            /\ shipment_events[Len(shipment_events)].order_no = order
            /\ (\A i \in DOMAIN shipment_events : shipment_events[i].type = "shipment_ok")
                 => all_ok[c]
            /\ (pc[c] = "returned" /\ all_ok[c]) =>
                 (ret[c] = "True" /\ HasFile(done_dir) /\ ~HasFile(error_dir))

\* neither the label nor the shipment list printed, and the file was archived
\* as done
C17_Witness ==
    /\ pc[1] = "returned"
    /\ handled[1] # << >>
    /\ handled[1].print_label = "failed"
    /\ handled[1].print_document = "failed"
    /\ ret[1] = "True"
    /\ HasFile(done_dir)

\* C18: the stability check succeeds only when its last two polls observed the
\* same size and that size is not 0: never at its first poll, never when the
\* size changed between the last two polls, never on a size that stays 0.
C18_StableOnlyWhenUnchanged ==
    \A t \in Threads :
      outcome[t] = "stable" =>
        /\ polls[t] >= 2
        /\ seen[t][1] = seen[t][2]
        /\ seen[t][2] > 0

\* the check succeeded at its fourth poll, after the size had changed
C18_Witness ==
    /\ outcome[1] = "stable"
    /\ polls[1] = 4
    /\ wpc[1] = "process"

\* C19: the stability check ends within 10 polls: each poll either ends it or
\* is counted, and no poll follows the tenth.  It ends in exactly one way:
\* vanished when the file is missing at a poll, stable when the poll observes
\* the non-zero size of the poll before, timeout when the tenth poll does
\* neither.  After vanished and timeout the handler is back at rest, the name
\* is out of the in-progress set and process_file was not called; the handler
\* calls process_file only after stable.
C19_CheckEndsOneWay ==
    /\ [](\A t \in Threads :
            /\ polls[t] <= MaxPolls
            /\ wpc[t] = "poll" => (polls[t] < MaxPolls /\ outcome[t] = "none")
            /\ wpc[t] \in {"process", "in_process"} => outcome[t] = "stable")
    /\ [][/\ \A t \in Threads :
               polls'[t] # polls[t] =>
                 \/ polls'[t] = 0 /\ wpc[t] = "add" /\ wpc'[t] = "poll"
                 \/ /\ wpc[t] = "poll"
                    /\ polls'[t] = polls[t] + 1
                    /\ outcome'[t] = "vanished" <=> ~in_input
                    /\ outcome'[t] = "stable" <=>
                         (in_input /\ size = seen[t][2] /\ size > 0)
                    /\ outcome'[t] = "timeout" <=>
                         (in_input /\ ~(size = seen[t][2] /\ size > 0)
                          /\ polls'[t] = MaxPolls)
                    /\ outcome'[t] = "none" <=> wpc'[t] = "poll"
                    /\ outcome'[t] \in {"vanished", "timeout"} =>
                         /\ wpc'[t] = "idle"
                         /\ FileName \notin processing'
                         /\ wcalls' = wcalls
                         /\ pc' = pc
          /\ (wcalls' # wcalls /\ wcalls'[Len(wcalls')].by = "event") =>
               \E t \in Threads : wpc[t] = "process" /\ outcome[t] = "stable"]_vars

\* the check timed out at the tenth poll on a file that kept changing, and
\* the handler went back to rest without a process_file call for the event
C19_Witness ==
    /\ outcome[1] = "timeout"
    /\ polls[1] = MaxPolls
    /\ seen[1][1] > 0 /\ seen[1][2] > 0
    /\ wpc[1] = "idle"
    /\ \A i \in DOMAIN wcalls : wcalls[i].by # "event"

\* C20: every process_file call the watcher makes, from a creation event or
\* from the startup sweep, comes after a stability check that succeeded for
\* the file.
C20_StableBeforeProcessing ==
    \A i \in DOMAIN wcalls : wcalls[i].checked = "stable"

\* a process_file call the handler started on thread t has not returned yet
InFlight(t) == wpc[t] = "in_process" /\ pc[t] # "returned"

\* C21: a creation event for the file name that the observer queued while the
\* handler had an earlier event for the name in its stability check or in
\* process_file is dropped when on_created gets it: the handler goes into no
\* stability check and makes no process_file call for it; and at most one
\* process_file call that the handler started for the file is in flight at
\* any time.
C21_LaterEventDropped ==
    /\ [](Cardinality({t \in Threads : InFlight(t)}) <= 1)
    /\ [][(/\ queue # << >>
           /\ queue' = Tail(queue)
           /\ ~Head(queue).is_directory
           /\ Head(queue).suffix = ".xml"
           /\ Head(queue).overlap)
          => \A t \in Threads : wpc'[t] = "idle"]_vars

\* a process_file call of the service returned False at the lock marker
SkippedAtLock == pc[1] = "returned" /\ ret[1] = "False" /\ via[1] = "none"

\* the marker is gone or older than the stale threshold
MarkerGoneOrStale == ~lock.exists \/ IsStale(now - lock.mtime)

\* C22: when process_file has skipped the file at a live lock marker and the
\* marker has since been released or has become stale, the service
\* eventually attempts the file again and processes it: the file leaves the
\* watched directory for done_dir or error_dir, unless the watcher is stopped
\* before that.
C22_SkippedFileRetried ==
    (SkippedAtLock /\ in_input /\ MarkerGoneOrStale)
       ~> \/ ~in_input /\ (HasFile(done_dir) \/ HasFile(error_dir))
          \/ started.stopped

\* the known carriers, as a service code names them
KnownCarriers == {<<"D", "H", "L">>, <<"P", "N">>}

\* C23: service-code parsing splits the code on ':'.  It succeeds exactly when
\* the code has at least two segments and its first segment, trimmed and
\* compared without regard to case, is DHL or PN; it then yields that carrier,
\* the trimmed second segment as product and the trimmed third segment, or
\* the empty string when there is none, as addon.  A code without ':' fails.
C23_ServiceCodeParsed ==
    last.op = "parse_srvid" =>
      LET parts == Split(last.arg, ":")
          known == Len(parts) >= 2 /\ Upper(Strip(parts[1])) \in KnownCarriers
      IN  /\ last.res.ok <=> known
          /\ (\A i \in DOMAIN last.arg : last.arg[i] # ":") => ~last.res.ok
          /\ last.res.ok =>
               /\ last.res.val.carrier =
                    (IF Upper(Strip(parts[1])) = <<"P", "N">> THEN "POSTNORD" ELSE "DHL")
               /\ last.res.val.product_code = Strip(parts[2])
               /\ last.res.val.addon = (IF Len(parts) >= 3 THEN Strip(parts[3]) ELSE << >>)
               /\ \A i \in DOMAIN last.res.val.product_code :
                    last.res.val.product_code[i] # ":"
          /\ ~last.res.ok => last.res.val = "ValueError"

\* "dhl: 104 :AVIS" parsed to (DHL, "104", "AVIS")
C23_Witness ==
    /\ last.op = "parse_srvid"
    /\ last.arg = <<"d", "h", "l", ":", " ", "1", "0", "4", " ", ":", "A", "V", "I", "S">>
    /\ last.res.ok
    /\ last.res.val = [carrier |-> "DHL", product_code |-> <<"1", "0", "4">>,
                       addon |-> <<"A", "V", "I", "S">>]

\* the last operation built a payload: _build_transport_instruction returned
PayloadBuilt ==
    last.op = "build_transport_instruction" /\ "ok" \notin DOMAIN last.res

\* C24: every payload built for a parsed shipment carries a weight above 0
\* and a volume above 0, in its totals and in its piece: whatever weight and
\* volume the container element gives or leaves out, and without a container.
C24_WeightAndVolumePositive ==
    PayloadBuilt =>
      /\ last.res.totalWeight > 0
      /\ last.res.totalVolume > 0
      /\ last.res.pieces[1].weight > 0
      /\ last.res.pieces[1].volume > 0

\* C25: the payload's package type is the package code of the first
\* container when that code is set, whatever the product; otherwise 701 for
\* product 210; otherwise PKT, also for a shipment without containers.
C25_PackageTypePriority ==
    PayloadBuilt =>
      LET containers == last.shipment.containers
          product == last.shipment.service.product_code
          pkg_type == last.res.pieces[1].packageType
      IN  IF containers # << >> /\ containers[1].package_code # ""
          THEN pkg_type = containers[1].package_code
          ELSE IF product = <<"2", "1", "0">>
          THEN pkg_type = "701"
          ELSE pkg_type = "PKT"

\* product 210 with a container whose package code is 702: the payload says 702
C25_Witness ==
    /\ PayloadBuilt
    /\ last.shipment.service.product_code = <<"2", "1", "0">>
    /\ last.shipment.containers # << >>
    /\ last.shipment.containers[1].package_code = "702"
    /\ last.res.pieces[1].packageType = "702"

\* C26: the payload's shippingDate is the booking's pickup date exactly when
\* the shipment has a booking whose pickup flag is set and whose date is not
\* empty; without a booking, with the flag not set or with an empty date it
\* is today's date.
C26_ShippingDateFromRequestedBooking ==
    PayloadBuilt =>
      LET booking == last.shipment.service.booking
      IN  last.res.shippingDate =
            (IF Truthy(booking) /\ booking.pickup_booking /\ booking.pickup_date # ""
             THEN booking.pickup_date
             ELSE Today)

\* C27: postal code normalization trims the code and then drops the first
\* three characters exactly when the trimmed code is longer than 3, its third
\* character is a hyphen and its first two are letters; any other code comes
\* back trimmed and otherwise unchanged, and a result made of digits only is
\* left as it is by a second normalization.
C27_PostalCodeNormalized ==
    last.op = "clean_postal_code" =>
      LET t == Strip(last.arg)
          prefixed == /\ Len(t) > 3
                      /\ t[3] = "-"
                      /\ t[1] \in Letters /\ t[2] \in Letters
      IN  /\ prefixed => last.res = SubSeq(t, 4, Len(t))
          /\ ~prefixed => last.res = t
          /\ Len(t) <= 3 => last.res = t
          /\ (t = << >> \/ (t[1] \notin Whitespace /\ t[Len(t)] \notin Whitespace))
          /\ (\A i \in DOMAIN last.res : last.res[i] = "5") =>
               CleanPostalCode(last.res) = last.res

\* " Dk-5" normalized to "5"
C27_Witness ==
    /\ last.op = "clean_postal_code"
    /\ last.arg = <<" ", "D", "k", "-", "5">>
    /\ last.res = <<"5">>

\* C28: in the pipeline of a shipment, when the print-documents request for
\* the label was made and gave no label, the print-documents-by-id request is
\* made for the same shipment; the shipment fails at the label only when both
\* gave none.
C28_PipelineLabelTwoTier ==
    \A c \in Callers :
      (/\ handled[c] # << >>
       /\ TookNext(handled[c], "print_documents:label")
       /\ ~TookNext(handled[c], "write_label"))
        => TookNext(handled[c], "print_by_id")

\* C29: a process_file call that does not get the lock marker, because
\* another call on the file has it or takes it first, returns False and
\* raises no exception: also when the other call releases or reclaims the
\* marker between this call's failed create and its existence check, its age
\* check or its re-create.
C29_LostRaceReturnsFalse ==
    \A c \in Callers :
      (pc[c] = "returned" /\ ~Acquired(c)) => (ret[c] = "False" /\ exc[c] = "")

\* where the handling took the step
StepIndex(h, step) == CHOOSE i \in DOMAIN h.steps : h.steps[i] = step

\* C30: for a shipment with a shipment list, the label file and the shipment
\* list file are both written to the label cache directory before the label
\* is handed to the printer.
C30_BothWrittenBeforePrint ==
    \A c \in Callers :
      (/\ handled[c] # << >>
       /\ TookNext(handled[c], "print_label")
       /\ ListFile(handled[c].shipment.order_no) \in DOMAIN label_files)
        => /\ TookNext(handled[c], "write_label")
           /\ TookNext(handled[c], "write_list")
           /\ StepIndex(handled[c], "write_label") < StepIndex(handled[c], "print_label")
           /\ StepIndex(handled[c], "write_list") < StepIndex(handled[c], "print_label")

\* C31: a shipment element without a service element makes the parse fail:
\* it yields no shipment, and no creation payload is built for it.
C31_MissingServiceFailsParse ==
    /\ (last.op = "parse_shipment" /\ ~last.arg.service.present) => ~last.res.ok
    /\ PayloadBuilt => last.arg.service.present

\* the transient status codes
TransientStatuses == {429, 502, 503, 504}

\* C32: for either carrier client, a request is attempted at most once more
\* than the configured number of retries, an attempt is followed by another
\* only when it was answered with 429, 502, 503 or 504, and any other error
\* status reaches the caller after a single attempt.
C32_RetriesBoundedAndTransient ==
    last.op = "request" =>
      /\ Len(last.statuses) <= last.total + 1
      /\ \A i \in 1..(Len(last.statuses) - 1) : last.statuses[i] \in TransientStatuses

\* C33: the release at the end of a process_file call removes the marker
\* only when it is the marker this call created: a marker that another call
\* put there after reclaiming this call's marker as stale is left in place.
C33_ReleasesOwnMarkerOnly ==
    [][\A c \in Callers :
         (/\ pc[c] = "release"
          /\ pc'[c] = "returned"
          /\ lock.exists
          /\ lock.owner # c) => lock' = lock]_vars

\* C34: for every shipment of a file that parsed, exactly one shipment event
\* is emitted when its handling is over, shipment_ok or shipment_error,
\* and none before, whatever the carrier, the disk,
\* the printer and the e-mail sender do; shipment_ok is emitted only when the
\* creation, the label retrieval, the pickup request if one is wanted, the
\* writes to the label cache and the print and e-mail steps were all made and
\* none of them raised.
C34_OneShipmentEvent ==
    \A c \in Callers :
      parsed[c] =>
        LET shipment_events == ShipmentEvents(c)
        IN  /\ Len(shipment_events) = Len(attempts[c]) - Unfinished(c)
            /\ \A i \in DOMAIN shipment_events :
                 /\ shipment_events[i].order_no = attempts[c][i]
                 /\ shipment_events[i].type \in {"shipment_ok", "shipment_error"}
            /\ pc[c] \in {"finalize", "release", "returned"} =>
                 attempts[c] = OrderNumbers
            /\ handled[c] # << >> =>
                 LET h == handled[c]
                     e == shipment_events[Len(shipment_events)]
                 IN  /\ e.order_no = h.shipment.order_no
                     /\ e.type = "shipment_ok" <=> ~h.raised
                     /\ e.type = "shipment_ok" =>
                          /\ \A step \in {"create_shipment", "print_documents:label",
                                          "write_label", "print_label"} : TookNext(h, step)
                          /\ WantsPickup(h.shipment) =>
                               (TookNext(h, "pickup_request") /\ h.pickup = "ok")
                          /\ h.shipment.wants_email => TookNext(h, "send_email")
                          /\ h.print_label \in {"printed", "failed"}
                          /\ LabelFile(h.shipment.order_no) \in DOMAIN label_files
                          /\ TookNext(h, "print_document") =>
                               ListFile(h.shipment.order_no) \in DOMAIN label_files

\* a call on a file of two shipments: the first was announced with
\* shipment_ok, the second with shipment_error after the write of its shipment
\* list raised, when its label was already printed
C34_Witness ==
    /\ pc[1] = "returned"
    /\ Len(content.shipments) = 2
    /\ Len(ShipmentEvents(1)) = 2
    /\ ShipmentEvents(1)[1].type = "shipment_ok"
    /\ ShipmentEvents(1)[2].type = "shipment_error"
    /\ handled[1].raised
    /\ handled[1].print_label = "printed"
    /\ handled[1].steps[Len(handled[1].steps)] = "write_list"

IsFileEvent(e) == e.type \in {"file_done", "file_error"}

\* C35: every process_file call that acquired the lock emits exactly one
\* file-level event (file_done or file_error): it is there when the call
\* reaches the release of the marker, it comes after every shipment event of
\* the call and after the file has left the input directory; a call skipped
\* on a lock conflict emits none.
C35_OneFileEventBeforeRelease ==
    \A c \in Callers :
      /\ Len(FileEvents(c)) <= 1
      /\ ~Acquired(c) => FileEvents(c) = << >>
      /\ (Acquired(c) /\ pc[c] \in {"release", "returned"}) => Len(FileEvents(c)) = 1
      /\ FileEvents(c) # << >> =>
           /\ IsFileEvent(events[c][Len(events[c])])
           /\ ~in_input
           /\ pc[c] \in {"release", "returned"}

MissingCacheError(res) == ~res.ok /\ res.label = "no cached TI"

\* C36: when create_shipment has returned successfully with shipment_id X,
\* the get_all_documents(X) that follows immediately on the same client does
\* not fail with the missing-cache error, whatever decodable body the carrier
\* answered the creation with (no transportInstruction wrapper, no id, or an
\* empty object included).
C36_CreatedIdFoundInCache ==
    [][(/\ last.op = "create_shipment"
        /\ last.res.ok
        /\ last'.op = "get_all_documents"
        /\ last'.id = last.res.shipment_id)
       => ~MissingCacheError(last'.res)]_vars

HasForeignCarrier == \E i \in DOMAIN content.shipments : content.shipments[i].carrier # "DHL"

\* C37: a shipment whose carrier is not DHL takes no step at all (no carrier
\* request, no label or list file, no print job, no e-mail), ends with a
\* shipment_error event and makes the file a failed one (file_error, error
\* directory, return value False); the other shipments of the file are still
\* attempted.
C37_UnsupportedCarrierFailsAlone ==
    \A c \in Callers :
      /\ (handled[c] # << >> /\ handled[c].shipment.carrier # "DHL") =>
           LET order_no == handled[c].shipment.order_no
               evs == ShipmentEvents(c)
           IN  /\ handled[c].steps = << >>
               /\ handled[c].print_label = "none"
               /\ handled[c].print_document = "none"
               /\ LabelFile(order_no) \notin DOMAIN label_files
               /\ ListFile(order_no) \notin DOMAIN label_files
               /\ evs[Len(evs)].type = "shipment_error"
               /\ evs[Len(evs)].order_no = order_no
               /\ ~all_ok[c]
      /\ (parsed[c] /\ HasForeignCarrier /\ pc[c] \in {"finalize", "release", "returned"}) =>
           /\ attempts[c] = OrderNumbers
           /\ \A i \in DOMAIN content.shipments :
                content.shipments[i].carrier # "DHL" =>
                  ShipmentEvents(c)[i].type = "shipment_error"
           /\ ~all_ok[c]
           /\ pc[c] \in {"release", "returned"} =>
                /\ FileEvents(c) = <<FileError(PartialFailure)>>
                /\ HasFile(error_dir)
                /\ ~HasFile(done_dir)
           /\ pc[c] = "returned" => ret[c] = "False"

\* a file whose first shipment is for another carrier and whose second was
\* created, labelled and announced
C37_Witness ==
    /\ pc[1] = "returned"
    /\ Len(content.shipments) = 2
    /\ content.shipments[1].carrier # "DHL"
    /\ ShipmentEvents(1)[1].type = "shipment_error"
    /\ ShipmentEvents(1)[2].type = "shipment_ok"
    /\ LabelFile(content.shipments[2].order_no) \in DOMAIN label_files
    /\ ret[1] = "False"

AllShipmentsOk(c) ==
    \A i \in DOMAIN ShipmentEvents(c) : ShipmentEvents(c)[i].type = "shipment_ok"

\* C38: whatever the on_event callback raises, processing goes as it does
\* with a callback that returns: one shipment event per shipment handled,
\* shipment_ok exactly when its handling did not raise; the file goes to
\* done_dir with file_done when every shipment succeeded and to error_dir
\* with file_error otherwise; process_file returns True or False accordingly
\* and never raises; the marker is released; every event of the file is
\* emitted, those after a raising callback included.
C38_CallbackErrorsIgnored ==
    \A c \in Callers :
      /\ parsed[c] =>
           /\ Len(ShipmentEvents(c)) = Len(attempts[c]) - Unfinished(c)
           /\ handled[c] # << >> =>
                (ShipmentEvents(c)[Len(ShipmentEvents(c))].type = "shipment_ok"
                   <=> ~handled[c].raised)
           /\ pc[c] \in {"shipments", "finalize"} => (all_ok[c] <=> AllShipmentsOk(c))
      /\ pc[c] \in {"release", "returned"} =>
           /\ exc[c] = ""
           /\ FileEvents(c) =
                <<IF ~parsed[c] THEN FileError(content.error)
                  ELSE IF AllShipmentsOk(c) THEN FileDone
                  ELSE FileError(PartialFailure)>>
           /\ HasFile(done_dir) <=> (parsed[c] /\ AllShipmentsOk(c))
           /\ HasFile(error_dir) <=> ~(parsed[c] /\ AllShipmentsOk(c))
           /\ Len(events[c]) = (IF parsed[c] THEN Len(content.shipments) + 1 ELSE 1)
      /\ pc[c] = "returned" =>
           /\ ret[c] = (IF parsed[c] /\ AllShipmentsOk(c) THEN "True" ELSE "False")
           /\ ~lock.exists
           /\ ~held[c]

\* a callback that raises on every event was given the three events of a file
\* of two shipments, one created and one refused
C38_Witness ==
    /\ pc[1] = "returned"
    /\ on_event[1] = Callback(EventTypes)
    /\ Len(events[1]) = 3
    /\ events[1][1].type = "shipment_ok"
    /\ events[1][2].type = "shipment_error"
    /\ events[1][3].type = "file_error"
    /\ ret[1] = "False"
    /\ ~lock.exists

InHandling(t) == wpc[t] \in {"poll", "process", "in_process"}

XmlFileEvent(event) == ~event.is_directory /\ event.suffix = ".xml"

\* C39: no exception leaves on_created; every exit of an event that entered
\* handling (the file vanished, the stability check timed out, process_file
\* returned or raised) leaves the in-progress set without the file name; and
\* when the handler is back at rest, the next creation event for the name
\* enters handling again.
C39_HandlerAlwaysCleansUp ==
    /\ [](\A t \in Threads : wpc[t] # "escaped")
    /\ [][\A t \in Threads :
            /\ (InHandling(t) /\ ~InHandling(t)') => FileName \notin processing'
            /\ (/\ \A u \in Threads : wpc[u] = "idle"
                /\ queue # << >>
                /\ XmlFileEvent(Head(queue))
                /\ queue' = Tail(queue))
               => \E u \in Threads : wpc'[u] = "add"]_vars

\* process_file raised inside the handler, the name was discarded, and the
\* next creation event for the file has entered handling
C39_Witness ==
    /\ wpc[1] = "add"
    /\ ret[1] = "raised"
    /\ wcalls # << >>
    /\ wcalls[Len(wcalls)].by = "event"
    /\ FileName \notin processing

====
